---------------------------- MODULE Spec2Model ----------------------------
(***************************************************************************)
(* A state-machine model of the simulated radio transceiver driver         *)
(* (vendor/radio_driver.c, vendor/radio_driver.h) and of the simulated     *)
(* DS18B20 temperature sensor driver (vendor/ds18b20_driver.c,             *)
(* vendor/ds18b20_driver.h).                                               *)
(*                                                                         *)
(* The driver keeps one process-wide struct, g_radio.  Every API function  *)
(* is one action; radio_receive_packet is the only function that can be    *)
(* suspended, namely while the receive callback it invoked is running.     *)
(* The callback is application code: it either returns without touching    *)
(* the radio, or it calls the radio API again before it returns.  A        *)
(* suspended radio_receive_packet is a frame of `frames`.                  *)
(*                                                                         *)
(* rand() and clock() are the environment: every rand() result is an       *)
(* input of the action that draws it, and clock_ms is the value            *)
(* get_current_time_ms returns, advanced by Tick.                          *)
(*                                                                         *)
(* The sensor driver keeps one struct too, driver_state; its functions     *)
(* take device handles that live in the application's memory and are       *)
(* inputs of the actions.  Its get_time_ms reads the same clock().         *)
(***************************************************************************)
EXTENDS Integers, Sequences, FiniteSets, TLC

VARIABLES
    g_radio,    \* static radio_state_t g_radio
    clock_ms,   \* what get_current_time_ms() returns now
    ret,        \* the last call that returned, or the callback just entered
    frames,     \* suspended radio_receive_packet activations (callback running)
    rx_trace,   \* history: packets enqueued / dequeued / handed to the callback
    driver_state,   \* static struct driver_state of the DS18B20 driver
    sensor_trace    \* history: per ROM code, the conversion last started

vars == <<g_radio, clock_ms, ret, frames, rx_trace, driver_state, sensor_trace>>

\* What the radio driver leaves alone.
sensor_vars == <<driver_state, sensor_trace>>

(***************************************************************************)
(* Program constants                                                       *)
(***************************************************************************)
RADIO_MAX_PAYLOAD_SIZE == 246
RADIO_MAX_RETRIES == 5
RADIO_MAX_CHANNELS == 125
RADIO_RSSI_MIN == -120
RADIO_RSSI_MAX == -30
RX_BUFFER_SIZE == 32

RADIO_POWER_OFF == 0
RADIO_POWER_SLEEP == 1
RADIO_POWER_STANDBY == 2
RADIO_POWER_IDLE == 3
RADIO_POWER_RX == 4
RADIO_POWER_TX == 5

RADIO_DATA_RATE_1K == 0
RADIO_DATA_RATE_10K == 1
RADIO_DATA_RATE_50K == 2
RADIO_DATA_RATE_100K == 3
RADIO_DATA_RATE_250K == 4

RADIO_MODULATION_FSK == 0
RADIO_MODULATION_GFSK == 1
RADIO_MODULATION_LORA == 2
RADIO_MODULATION_OOK == 3

RADIO_PRIORITY_NORMAL == 1

RADIO_OK == 0
RADIO_ERROR_INIT == -1
RADIO_ERROR_CONFIG == -2
RADIO_ERROR_TIMEOUT == -3
RADIO_ERROR_NO_ACK == -4
RADIO_ERROR_INVALID_PARAM == -6
RADIO_ERROR_BUFFER_EMPTY == -8
RADIO_ERROR_POWER_FAILURE == -10
RADIO_ERROR_NOT_CONNECTED == -12
RADIO_ERROR_PACKET_TOO_LARGE == -14

\* hop_count of a radio that is not associated ("255; // Not connected")
HOP_NOT_CONNECTED == 255
\* The largest value of a uint8_t (payload_size, max_retries, channel).
UINT8_MAX == 255
\* uint16_t next_tx_id wraps at 2^16.
UINT16_MOD == 65536

(***************************************************************************)
(* Bounds of the model                                                     *)
(***************************************************************************)
\* get_current_time_ms() advances by TickMs per Tick, up to MaxClockMs.
TickMs == 700
MaxClockMs == 2100
\* Accepted sends (sync and async each) explored per run.
MaxSent == 2
\* Simulated arrivals explored by the full-API specification.
MaxArrivals == 2
\* Re-entrant callback depth explored by the full-API specification.
MaxDepth == 1

(***************************************************************************)
(* Values                                                                  *)
(***************************************************************************)
\* A pointer argument: the null pointer, or a pointer to an object.
NULL == "NULL"
PtrArgs == {NULL, "valid"}

PowerStates == RADIO_POWER_OFF .. RADIO_POWER_TX

\* radio_config_t.  The fields the driver only stores and never reads back
\* (frequency_hz, tx_power, security, network_key, auto_ack, auto_retry) are
\* left out; device_address (8 bytes) is one number.
ZeroConfig ==
    [channel |-> 0, data_rate |-> 0, modulation |-> 0, device_address |-> 0,
     network_id |-> 0, max_retries |-> 0, tx_timeout_ms |-> 0]

\* radio_packet_t.  The payload bytes are left out, payload_size is kept.
ZeroPacket ==
    [destination |-> 0, source |-> 0, packet_id |-> 0, priority |-> 0,
     payload_size |-> 0, timestamp |-> 0, require_ack |-> FALSE,
     retry_count |-> 0]

\* radio_stats_t
ZeroStats ==
    [packets_sent |-> 0, packets_received |-> 0, packets_lost |-> 0,
     retries_attempted |-> 0, crc_errors |-> 0, timeouts |-> 0,
     last_rssi |-> 0, channel_utilization |-> 0, total_airtime_ms |-> 0,
     power_consumption_mw |-> 0]

\* radio_network_info_t
ZeroNetworkInfo ==
    [network_id |-> 0, connected_devices |-> 0, signal_strength |-> 0,
     link_quality |-> 0, uptime_seconds |-> 0, is_gateway |-> FALSE,
     hop_count |-> 0]

\* radio_state_t after `static radio_state_t g_radio = {0}` or memset(.., 0, ..)
ZeroState ==
    [initialized |-> FALSE,
     config |-> ZeroConfig,
     power_state |-> RADIO_POWER_OFF,
     stats |-> ZeroStats,
     network_info |-> ZeroNetworkInfo,
     connected_to_network |-> FALSE,
     rx_callback |-> NULL,
     rx_user_data |-> NULL,
     event_callback |-> NULL,
     event_user_data |-> NULL,
     next_tx_id |-> 0,
     last_activity_time |-> 0,
     rx_buffer_count |-> 0,
     rx_buffer |-> [i \in 0 .. RX_BUFFER_SIZE - 1 |-> ZeroPacket],
     rx_buffer_head |-> 0,
     rx_buffer_tail |-> 0]

(***************************************************************************)
(* Helper functions of the driver                                          *)
(***************************************************************************)
\* get_current_time_ms(): clock() scaled to milliseconds.
get_current_time_ms == clock_ms

\* simulate_rssi(): -70 dBm plus (rand() % 20) - 10, clamped to the valid range.
simulate_rssi(r) ==
    LET rssi == -70 + ((r % 20) - 10)
    IN  IF rssi < RADIO_RSSI_MIN THEN RADIO_RSSI_MIN
        ELSE IF rssi > RADIO_RSSI_MAX THEN RADIO_RSSI_MAX
        ELSE rssi

\* simulate_channel_utilization(): (rand() % 30) + 10
simulate_channel_utilization(r) == (r % 30) + 10

\* Two variants of validate_config with one comparison off by one: the first
\* refuses max_retries == RADIO_MAX_RETRIES, the second accepts
\* channel == RADIO_MAX_CHANNELS.  The driver's own is the third.
validate_config_retries_exclusive(config) ==
    IF config = <<>> THEN FALSE
    ELSE IF config[1].channel >= RADIO_MAX_CHANNELS THEN FALSE
    ELSE IF config[1].max_retries >= RADIO_MAX_RETRIES THEN FALSE
    ELSE IF config[1].tx_timeout_ms = 0 THEN FALSE
    ELSE TRUE

validate_config_channel_inclusive(config) ==
    IF config = <<>> THEN FALSE
    ELSE IF config[1].channel > RADIO_MAX_CHANNELS THEN FALSE
    ELSE IF config[1].max_retries > RADIO_MAX_RETRIES THEN FALSE
    ELSE IF config[1].tx_timeout_ms = 0 THEN FALSE
    ELSE TRUE

\* validate_config(): config is a pointer, <<>> for NULL, <<c>> for &c.
validate_config(config) ==
    IF config = <<>> THEN FALSE
    ELSE IF config[1].channel >= RADIO_MAX_CHANNELS THEN FALSE
    ELSE IF config[1].max_retries > RADIO_MAX_RETRIES THEN FALSE
    ELSE IF config[1].tx_timeout_ms = 0 THEN FALSE
    ELSE TRUE

\* The nominal bit rate of a radio_data_rate_t (default: 10000).
BitsPerSecond(data_rate) ==
    CASE data_rate = RADIO_DATA_RATE_1K -> 1000
      [] data_rate = RADIO_DATA_RATE_10K -> 10000
      [] data_rate = RADIO_DATA_RATE_50K -> 50000
      [] data_rate = RADIO_DATA_RATE_100K -> 100000
      [] data_rate = RADIO_DATA_RATE_250K -> 250000
      [] OTHER -> 10000

\* A variant of the modulation factor that rounds GFSK to the nearest bit
\* instead of truncating.
ModulatedBits_rounded(total_bits, modulation) ==
    CASE modulation = RADIO_MODULATION_FSK -> total_bits
      [] modulation = RADIO_MODULATION_GFSK -> (total_bits * 9 + 5) \div 10
      [] modulation = RADIO_MODULATION_LORA -> (total_bits * 3) \div 2
      [] modulation = RADIO_MODULATION_OOK -> total_bits * 2
      [] OTHER -> total_bits

\* total_bits after the modulation efficiency factor (integer arithmetic).
ModulatedBits(total_bits, modulation) ==
    CASE modulation = RADIO_MODULATION_FSK -> total_bits
      [] modulation = RADIO_MODULATION_GFSK -> (total_bits * 9) \div 10
      [] modulation = RADIO_MODULATION_LORA -> (total_bits * 3) \div 2
      [] modulation = RADIO_MODULATION_OOK -> total_bits * 2
      [] OTHER -> total_bits

\* (total_bits * 1000000) / bps in uint32_t arithmetic.  2^32 is
\* 4294 * 10^6 + 967296: up to 4294 bits the product does not wrap and, bps
\* being a multiple of 1000, the quotient is (total_bits * 1000) / (bps / 1000);
\* above, the product wraps once and is (total_bits - 4294) * 10^6 - 967296.
MicrosOfBits(total_bits, bps) ==
    IF total_bits <= 4294
    THEN (total_bits * 1000) \div (bps \div 1000)
    ELSE ((total_bits - 4294) * 1000000 - 967296) \div bps

\* radio_calculate_airtime(payload_size, data_rate, modulation), microseconds
radio_calculate_airtime(payload_size, data_rate, modulation) ==
    MicrosOfBits(ModulatedBits((payload_size + 16) * 8, modulation),
                 BitsPerSecond(data_rate))

\* The current draw of a power state in mA (default: 10).
CurrentMa(power_state) ==
    CASE power_state = RADIO_POWER_OFF -> 0
      [] power_state = RADIO_POWER_SLEEP -> 1
      [] power_state = RADIO_POWER_STANDBY -> 5
      [] power_state = RADIO_POWER_IDLE -> 10
      [] power_state = RADIO_POWER_RX -> 20
      [] power_state = RADIO_POWER_TX -> 50
      [] OTHER -> 10

\* (x * duration_ms) / 3600000 in uint32_t arithmetic, for x < 2^16 and
\* duration_ms < 2^32.  The product is taken modulo 2^32, byte by byte of
\* duration_ms, in two 16-bit halves (low, high), so that no intermediate
\* value exceeds 31 bits; 3600000 is 128 * 28125, and dividing by 128 first
\* keeps the dividend small.
MicroAmpHours(x, duration_ms) ==
    LET d0 == duration_ms % 256
        d1 == (duration_ms \div 256) % 256
        d2 == (duration_ms \div 65536) % 256
        d3 == duration_ms \div 16777216
        low == x * d0 + ((x * d1) % 256) * 256
        high == ( (low \div 65536) + ((x * d1) \div 256) + x * d2
                  + ((x * d3) % 256) * 256 ) % 65536
    IN  (high * 512 + ((low % 65536) \div 128)) \div 28125

\* radio_estimate_power_consumption(power_state, duration_ms):
\* (current_ma * 1000 * duration_ms) / 3600000, all operands uint32_t.
radio_estimate_power_consumption(power_state, duration_ms) ==
    MicroAmpHours(CurrentMa(power_state) * 1000, duration_ms)

\* A variant of the size check that lets one byte too many through, and a
\* variant of the power check that tests for SLEEP instead of OFF.
PayloadTooLarge_off_by_one(packet) ==
    packet.payload_size > RADIO_MAX_PAYLOAD_SIZE + 1

PoweredOff_tests_sleep(g) == g.power_state = RADIO_POWER_SLEEP

\* "payload_size > RADIO_MAX_PAYLOAD_SIZE" of the two send functions.
PayloadTooLarge(packet) == packet.payload_size > RADIO_MAX_PAYLOAD_SIZE

\* "g_radio.power_state == RADIO_POWER_OFF" of the functions that need power.
PoweredOff(g) == g.power_state = RADIO_POWER_OFF

(***************************************************************************)
(* The DS18B20 driver: constants and cleared state                          *)
(***************************************************************************)
MAX_SIMULATED_DEVICES == 8

DS18B20_RESOLUTION_9BIT == 31
DS18B20_RESOLUTION_10BIT == 63
DS18B20_RESOLUTION_11BIT == 95
DS18B20_RESOLUTION_12BIT == 127

DS18B20_POWER_PARASITIC == 0
DS18B20_POWER_EXTERNAL == 1

DS18B20_OK == 0
DS18B20_ERROR_INIT == -1
DS18B20_ERROR_NOT_FOUND == -2
DS18B20_ERROR_TIMEOUT == -4
DS18B20_ERROR_INVALID_PARAM == -5

\* A ds18b20_handle_t.  rom_code stands for the 8 bytes: the family code,
\* the 6 bytes of the serial number and their CRC, so that two ROM codes
\* generate_rom_code builds are equal exactly if their serial numbers are;
\* the cleared ROM code (all bytes zero) is 0.
ZeroHandle ==
    [rom_code |-> 0, resolution |-> 0, power_mode |-> 0, th_register |-> 0,
     tl_register |-> 0, initialized |-> FALSE]

\* A simulated_device_t.  Temperatures are in thousandths of a degree
\* Celsius.
ZeroDevice ==
    [handle |-> ZeroHandle, conversion_start_time |-> 0,
     conversion_active |-> FALSE, base_temperature |-> 0,
     temperature_drift |-> 0]

\* "driver_state = {0}", and driver_state after memset.
ZeroDriverState ==
    [initialized |-> FALSE, onewire_pin |-> 0,
     devices |-> [i \in 0 .. MAX_SIMULATED_DEVICES - 1 |-> ZeroDevice],
     device_count |-> 0]

\* The serial numbers the simulated bus of this model produces (rand()
\* results), and one that no scan produces.
RomSerials == {11, 12}
UnknownRom == 99
RomCodes == RomSerials \cup {UnknownRom}

\* The history of the conversions since the device table was last built:
\* per ROM code, whether start_conversion has succeeded on it, when it last
\* did, and whether is_conversion_complete has reported true since.
NoConversion == [started |-> FALSE, at |-> 0, reported |-> FALSE]
ZeroSensorTrace == [rom \in RomCodes |-> NoConversion]

(***************************************************************************)
(* The record of a returned call                                           *)
(***************************************************************************)
\* What the application saw last: a radio call returning, or its receive
\* callback being entered (op "rx_callback", arg the user data, out the packet).
\* op: the function; arg: its input; res: the radio_error_t it returned;
\* out: what it wrote through its output pointer; from: the power state, the
\* initialized flag and the buffer occupancy when it was called; rx: what the
\* last simulate_packet_reception of the call did with an arrival; at: the
\* time of the return.
Entry ==
    [power_state |-> g_radio.power_state,
     initialized |-> g_radio.initialized,
     rx_buffer_count |-> g_radio.rx_buffer_count]

Returned(op, arg, res, out, rx) ==
    [op |-> op, arg |-> arg, res |-> res, out |-> out, rx |-> rx,
     from |-> Entry, at |-> clock_ms]

NoOutput == "none"

\* The history of the receive buffer since the last successful radio_init:
\* packets enqueued, packets dequeued, callback invocations, and the arguments
\* of the last callback invocation.
ZeroTrace ==
    [enq |-> 0, deq |-> 0, cb |-> 0, cb_packet |-> ZeroPacket,
     cb_user_data |-> NULL]

\* The position of the running callback: making a call from inside a callback
\* marks the activation that waits for it (the top frame) as re-entered.
Called(fs) ==
    IF fs = <<>> THEN fs ELSE [fs EXCEPT ![Len(fs)].called = TRUE]

\* A call that returns `res` and leaves g_radio alone.
Fail(op, arg, res) ==
    /\ ret' = Returned(op, arg, res, NoOutput, "none")
    /\ frames' = Called(frames)
    /\ UNCHANGED <<g_radio, clock_ms, rx_trace, sensor_vars>>

\* A call that returns `res` with output `out` and leaves g_radio as `g`.
Done(op, arg, res, out, g) ==
    /\ g_radio' = g
    /\ ret' = Returned(op, arg, res, out, "none")
    /\ frames' = Called(frames)
    /\ UNCHANGED <<clock_ms, rx_trace, sensor_vars>>

Init ==
    /\ g_radio = ZeroState
    /\ clock_ms = 0
    /\ ret = [op |-> "none", arg |-> NoOutput, res |-> RADIO_OK,
              out |-> NoOutput, rx |-> "none",
              from |-> [power_state |-> RADIO_POWER_OFF, initialized |-> FALSE,
                        rx_buffer_count |-> 0],
              at |-> 0]
    /\ frames = <<>>
    /\ rx_trace = ZeroTrace
    /\ driver_state = ZeroDriverState
    /\ sensor_trace = ZeroSensorTrace

\* Time passes: clock() grows.
Tick ==
    /\ clock_ms + TickMs <= MaxClockMs
    /\ clock_ms' = clock_ms + TickMs
    /\ UNCHANGED <<g_radio, ret, frames, rx_trace, sensor_vars>>

(***************************************************************************)
(* Lifecycle, configuration and power                                      *)
(***************************************************************************)
\* A variant of radio_init's state without the memset of g_radio: the fields
\* radio_init does not assign keep their values.
InitializedState_without_memset(c, r1, r2) ==
    [g_radio EXCEPT
        !.config = c,
        !.initialized = TRUE,
        !.power_state = RADIO_POWER_IDLE,
        !.connected_to_network = FALSE,
        !.next_tx_id = 1,
        !.last_activity_time = get_current_time_ms,
        !.network_info = [network_id |-> c.network_id,
                          connected_devices |-> 0,
                          signal_strength |-> simulate_rssi(r1),
                          link_quality |-> 0,
                          uptime_seconds |-> 0,
                          is_gateway |-> FALSE,
                          hop_count |-> HOP_NOT_CONNECTED],
        !.stats = [ZeroStats EXCEPT !.last_rssi = simulate_rssi(r2)]]

\* The state radio_init builds from a valid configuration; r1 and r2 are the
\* rand() results of its two simulate_rssi() calls.
InitializedState(c, r1, r2) ==
    [ZeroState EXCEPT
        !.config = c,
        !.initialized = TRUE,
        !.power_state = RADIO_POWER_IDLE,
        !.connected_to_network = FALSE,
        !.next_tx_id = 1,
        !.last_activity_time = get_current_time_ms,
        !.network_info = [network_id |-> c.network_id,
                          connected_devices |-> 0,
                          signal_strength |-> simulate_rssi(r1),
                          link_quality |-> 0,
                          uptime_seconds |-> 0,
                          is_gateway |-> FALSE,
                          hop_count |-> HOP_NOT_CONNECTED],
        !.stats = [ZeroStats EXCEPT !.last_rssi = simulate_rssi(r2)]]

radio_init(config, r1, r2) ==
    IF config = <<>> THEN Fail("radio_init", config, RADIO_ERROR_INVALID_PARAM)
    ELSE IF ~validate_config(config)
    THEN Fail("radio_init", config, RADIO_ERROR_CONFIG)
    ELSE /\ g_radio' = InitializedState(config[1], r1, r2)
         /\ ret' = Returned("radio_init", config, RADIO_OK, NoOutput, "none")
         /\ rx_trace' = ZeroTrace
         /\ frames' = Called(frames)
         /\ UNCHANGED <<clock_ms, sensor_vars>>

\* A variant of radio_configure without the test for RADIO_POWER_IDLE.
radio_configure_any_power(config) ==
    IF ~g_radio.initialized
    THEN Fail("radio_configure", config, RADIO_ERROR_INIT)
    ELSE IF config = <<>>
    THEN Fail("radio_configure", config, RADIO_ERROR_INVALID_PARAM)
    ELSE IF ~validate_config(config)
    THEN Fail("radio_configure", config, RADIO_ERROR_CONFIG)
    ELSE Done("radio_configure", config, RADIO_OK, NoOutput,
              [g_radio EXCEPT !.config = config[1]])

radio_configure(config) ==
    IF ~g_radio.initialized
    THEN Fail("radio_configure", config, RADIO_ERROR_INIT)
    ELSE IF config = <<>>
    THEN Fail("radio_configure", config, RADIO_ERROR_INVALID_PARAM)
    ELSE IF ~validate_config(config)
    THEN Fail("radio_configure", config, RADIO_ERROR_CONFIG)
    ELSE IF g_radio.power_state # RADIO_POWER_IDLE
    THEN Fail("radio_configure", config, RADIO_ERROR_CONFIG)
    ELSE Done("radio_configure", config, RADIO_OK, NoOutput,
              [g_radio EXCEPT !.config = config[1]])

\* Two variants of radio_set_power_state: one refuses only RX (not TX) from
\* OFF, the other does not clear connected_to_network on the way to OFF.
radio_set_power_state_rx_only(power_state) ==
    IF ~g_radio.initialized
    THEN Fail("radio_set_power_state", power_state, RADIO_ERROR_INIT)
    ELSE IF power_state < RADIO_POWER_OFF \/ power_state > RADIO_POWER_TX
    THEN Fail("radio_set_power_state", power_state, RADIO_ERROR_INVALID_PARAM)
    ELSE IF /\ power_state = RADIO_POWER_RX
            /\ g_radio.power_state = RADIO_POWER_OFF
    THEN Fail("radio_set_power_state", power_state, RADIO_ERROR_CONFIG)
    ELSE Done("radio_set_power_state", power_state, RADIO_OK, NoOutput,
              [g_radio EXCEPT
                  !.connected_to_network =
                      IF power_state = RADIO_POWER_OFF THEN FALSE ELSE @,
                  !.power_state = power_state,
                  !.last_activity_time = get_current_time_ms])

radio_set_power_state_keeps_association(power_state) ==
    IF ~g_radio.initialized
    THEN Fail("radio_set_power_state", power_state, RADIO_ERROR_INIT)
    ELSE IF power_state < RADIO_POWER_OFF \/ power_state > RADIO_POWER_TX
    THEN Fail("radio_set_power_state", power_state, RADIO_ERROR_INVALID_PARAM)
    ELSE IF /\ power_state \in {RADIO_POWER_RX, RADIO_POWER_TX}
            /\ g_radio.power_state = RADIO_POWER_OFF
    THEN Fail("radio_set_power_state", power_state, RADIO_ERROR_CONFIG)
    ELSE Done("radio_set_power_state", power_state, RADIO_OK, NoOutput,
              [g_radio EXCEPT
                  !.power_state = power_state,
                  !.last_activity_time = get_current_time_ms])

\* A variant of radio_set_power_state that also clears the statistics on the
\* way to OFF.
radio_set_power_state_off_clears_stats(power_state) ==
    IF ~g_radio.initialized
    THEN Fail("radio_set_power_state", power_state, RADIO_ERROR_INIT)
    ELSE IF power_state < RADIO_POWER_OFF \/ power_state > RADIO_POWER_TX
    THEN Fail("radio_set_power_state", power_state, RADIO_ERROR_INVALID_PARAM)
    ELSE IF /\ power_state \in {RADIO_POWER_RX, RADIO_POWER_TX}
            /\ g_radio.power_state = RADIO_POWER_OFF
    THEN Fail("radio_set_power_state", power_state, RADIO_ERROR_CONFIG)
    ELSE Done("radio_set_power_state", power_state, RADIO_OK, NoOutput,
              [g_radio EXCEPT
                  !.connected_to_network =
                      IF power_state = RADIO_POWER_OFF THEN FALSE ELSE @,
                  !.stats = IF power_state = RADIO_POWER_OFF THEN ZeroStats
                            ELSE @,
                  !.power_state = power_state,
                  !.last_activity_time = get_current_time_ms])

radio_set_power_state(power_state) ==
    IF ~g_radio.initialized
    THEN Fail("radio_set_power_state", power_state, RADIO_ERROR_INIT)
    ELSE IF power_state < RADIO_POWER_OFF \/ power_state > RADIO_POWER_TX
    THEN Fail("radio_set_power_state", power_state, RADIO_ERROR_INVALID_PARAM)
    ELSE IF /\ power_state \in {RADIO_POWER_RX, RADIO_POWER_TX}
            /\ g_radio.power_state = RADIO_POWER_OFF
    THEN Fail("radio_set_power_state", power_state, RADIO_ERROR_CONFIG)
    ELSE Done("radio_set_power_state", power_state, RADIO_OK, NoOutput,
              [g_radio EXCEPT
                  !.connected_to_network =
                      IF power_state = RADIO_POWER_OFF THEN FALSE ELSE @,
                  !.power_state = power_state,
                  !.last_activity_time = get_current_time_ms])

radio_get_power_state(power_state) ==
    IF ~g_radio.initialized
    THEN Fail("radio_get_power_state", power_state, RADIO_ERROR_INIT)
    ELSE IF power_state = NULL
    THEN Fail("radio_get_power_state", power_state, RADIO_ERROR_INVALID_PARAM)
    ELSE Done("radio_get_power_state", power_state, RADIO_OK,
              g_radio.power_state, g_radio)

radio_deinit ==
    IF ~g_radio.initialized
    THEN Fail("radio_deinit", NoOutput, RADIO_ERROR_INIT)
    ELSE Done("radio_deinit", NoOutput, RADIO_OK, NoOutput,
              [g_radio EXCEPT
                  !.power_state = RADIO_POWER_OFF,
                  !.connected_to_network = FALSE,
                  !.rx_callback = NULL,
                  !.event_callback = NULL,
                  !.initialized = FALSE])


(***************************************************************************)
(* Transmit pipeline                                                       *)
(***************************************************************************)
\* A variant of the transmission that returns from its NO_ACK branch without
\* the "g_radio.power_state = RADIO_POWER_IDLE" of the common exit.
TransmittedState_stays_in_tx(g, payload_size, lost) ==
    LET airtime == radio_calculate_airtime(payload_size, g.config.data_rate,
                                           g.config.modulation)
    IN  [g EXCEPT
            !.power_state = IF lost THEN RADIO_POWER_TX ELSE RADIO_POWER_IDLE,
            !.last_activity_time = get_current_time_ms,
            !.stats.packets_sent = @ + 1,
            !.stats.total_airtime_ms = @ + (airtime \div 1000),
            !.stats.packets_lost = IF lost THEN @ + 1 ELSE @]

\* g_radio after the transmission radio_send_packet simulates: the counters
\* are uint32_t, the power state passes through TX and ends in IDLE whether
\* the 5% loss draw (rand() % 100 < 5) hits or not.
TransmittedState(g, payload_size, lost) ==
    LET airtime == radio_calculate_airtime(payload_size, g.config.data_rate,
                                           g.config.modulation)
    IN  [g EXCEPT
            !.power_state = RADIO_POWER_IDLE,
            !.last_activity_time = get_current_time_ms,
            !.stats.packets_sent = @ + 1,
            !.stats.total_airtime_ms = @ + (airtime \div 1000),
            !.stats.packets_lost = IF lost THEN @ + 1 ELSE @]

\* packet is a pointer (<<>> or <<p>>), r the rand() result of the loss draw.
radio_send_packet(packet, r) ==
    IF ~g_radio.initialized
    THEN Fail("radio_send_packet", packet, RADIO_ERROR_INIT)
    ELSE IF packet = <<>>
    THEN Fail("radio_send_packet", packet, RADIO_ERROR_INVALID_PARAM)
    ELSE IF PayloadTooLarge(packet[1])
    THEN Fail("radio_send_packet", packet, RADIO_ERROR_PACKET_TOO_LARGE)
    ELSE IF PoweredOff(g_radio)
    THEN Fail("radio_send_packet", packet, RADIO_ERROR_POWER_FAILURE)
    ELSE /\ g_radio.stats.packets_sent < MaxSent
         /\ IF (r % 100) < 5
            THEN Done("radio_send_packet", packet, RADIO_ERROR_NO_ACK, NoOutput,
                      TransmittedState(g_radio, packet[1].payload_size, TRUE))
            ELSE Done("radio_send_packet", packet, RADIO_OK, NoOutput,
                      TransmittedState(g_radio, packet[1].payload_size, FALSE))

\* *tx_id = g_radio.next_tx_id++ (uint16_t), packets_sent++.  maxSent and
\* maxId bound the packets_sent and next_tx_id values explored.
radio_send_packet_async_upto(packet, tx_id, maxSent, maxId) ==
    IF ~g_radio.initialized
    THEN Fail("radio_send_packet_async", <<packet, tx_id>>, RADIO_ERROR_INIT)
    ELSE IF packet = <<>> \/ tx_id = NULL
    THEN Fail("radio_send_packet_async", <<packet, tx_id>>,
              RADIO_ERROR_INVALID_PARAM)
    ELSE IF PayloadTooLarge(packet[1])
    THEN Fail("radio_send_packet_async", <<packet, tx_id>>,
              RADIO_ERROR_PACKET_TOO_LARGE)
    ELSE IF PoweredOff(g_radio)
    THEN Fail("radio_send_packet_async", <<packet, tx_id>>,
              RADIO_ERROR_POWER_FAILURE)
    ELSE /\ g_radio.stats.packets_sent < maxSent
         /\ g_radio.next_tx_id <= maxId
         /\ Done("radio_send_packet_async", <<packet, tx_id>>, RADIO_OK,
                 g_radio.next_tx_id,
                 [g_radio EXCEPT
                     !.next_tx_id = (@ + 1) % UINT16_MOD,
                     !.stats.packets_sent = @ + 1])

radio_send_packet_async(packet, tx_id) ==
    radio_send_packet_async_upto(packet, tx_id, MaxSent, MaxSent)

\* "For simulation, assume all transmissions succeed": *status = RADIO_OK.
radio_get_tx_status(tx_id, status) ==
    IF ~g_radio.initialized
    THEN Fail("radio_get_tx_status", tx_id, RADIO_ERROR_INIT)
    ELSE IF status = NULL
    THEN Fail("radio_get_tx_status", tx_id, RADIO_ERROR_INVALID_PARAM)
    ELSE Done("radio_get_tx_status", tx_id, RADIO_OK, RADIO_OK, g_radio)

(***************************************************************************)
(* Callback registration                                                   *)
(***************************************************************************)
radio_set_rx_callback(callback, user_data) ==
    IF ~g_radio.initialized
    THEN Fail("radio_set_rx_callback", <<callback, user_data>>, RADIO_ERROR_INIT)
    ELSE Done("radio_set_rx_callback", <<callback, user_data>>, RADIO_OK,
              NoOutput,
              [g_radio EXCEPT !.rx_callback = callback,
                              !.rx_user_data = user_data])

radio_set_event_callback(callback, user_data) ==
    IF ~g_radio.initialized
    THEN Fail("radio_set_event_callback", <<callback, user_data>>,
              RADIO_ERROR_INIT)
    ELSE Done("radio_set_event_callback", <<callback, user_data>>, RADIO_OK,
              NoOutput,
              [g_radio EXCEPT !.event_callback = callback,
                              !.event_user_data = user_data])

(***************************************************************************)
(* Network manager                                                         *)
(***************************************************************************)
\* The i-th entry radio_scan_networks writes; r stands for its rand() results.
ScannedNetwork(i, r) ==
    [network_id |-> 1000 + i,
     connected_devices |-> (r % 10) + 1,
     signal_strength |-> simulate_rssi(r),
     link_quality |-> (r % 50) + 50,
     uptime_seconds |-> r % 86400,
     is_gateway |-> (i = 0),
     hop_count |-> (r % 5) + 1]

\* A variant of radio_scan_networks that keeps the first network it found in
\* g_radio.network_info.
radio_scan_networks_caches_first(networks, max_networks, found_count, rn, r) ==
    IF ~g_radio.initialized
    THEN Fail("radio_scan_networks", max_networks, RADIO_ERROR_INIT)
    ELSE IF networks = NULL \/ found_count = NULL
    THEN Fail("radio_scan_networks", max_networks, RADIO_ERROR_INVALID_PARAM)
    ELSE IF PoweredOff(g_radio)
    THEN Fail("radio_scan_networks", max_networks, RADIO_ERROR_POWER_FAILURE)
    ELSE LET drawn == (rn % 5) + 1
             num_networks == IF drawn > max_networks THEN max_networks
                             ELSE drawn
         IN  Done("radio_scan_networks", max_networks, RADIO_OK,
                  [i \in 1 .. num_networks |-> ScannedNetwork(i - 1, r)],
                  IF num_networks > 0
                  THEN [g_radio EXCEPT !.network_info = ScannedNetwork(0, r)]
                  ELSE g_radio)

\* rn is the rand() result that draws the number of networks, r the one the
\* entries are filled from.
radio_scan_networks(networks, max_networks, found_count, rn, r) ==
    IF ~g_radio.initialized
    THEN Fail("radio_scan_networks", max_networks, RADIO_ERROR_INIT)
    ELSE IF networks = NULL \/ found_count = NULL
    THEN Fail("radio_scan_networks", max_networks, RADIO_ERROR_INVALID_PARAM)
    ELSE IF PoweredOff(g_radio)
    THEN Fail("radio_scan_networks", max_networks, RADIO_ERROR_POWER_FAILURE)
    ELSE LET drawn == (rn % 5) + 1
             num_networks == IF drawn > max_networks THEN max_networks
                             ELSE drawn
         IN  Done("radio_scan_networks", max_networks, RADIO_OK,
                  [i \in 1 .. num_networks |-> ScannedNetwork(i - 1, r)],
                  g_radio)

\* A variant of radio_join_network without the power check.
radio_join_network_unpowered(network_id, network_key, rf, r) ==
    IF ~g_radio.initialized
    THEN Fail("radio_join_network", network_id, RADIO_ERROR_INIT)
    ELSE IF network_key = NULL
    THEN Fail("radio_join_network", network_id, RADIO_ERROR_INVALID_PARAM)
    ELSE IF (rf % 100) < 10
    THEN Fail("radio_join_network", network_id, RADIO_ERROR_TIMEOUT)
    ELSE Done("radio_join_network", network_id, RADIO_OK, NoOutput,
              [g_radio EXCEPT
                  !.network_info = [network_id |-> network_id,
                                    connected_devices |-> (r % 10) + 1,
                                    signal_strength |-> simulate_rssi(r),
                                    link_quality |-> (r % 30) + 70,
                                    uptime_seconds |-> 0,
                                    is_gateway |-> FALSE,
                                    hop_count |-> (r % 5) + 1],
                  !.connected_to_network = TRUE])

\* A variant of radio_join_network that stores the network id before the
\* simulated handshake, so that a timed-out join leaves it behind.
radio_join_network_id_first(network_id, network_key, rf, r) ==
    IF ~g_radio.initialized
    THEN Fail("radio_join_network", network_id, RADIO_ERROR_INIT)
    ELSE IF network_key = NULL
    THEN Fail("radio_join_network", network_id, RADIO_ERROR_INVALID_PARAM)
    ELSE IF PoweredOff(g_radio)
    THEN Fail("radio_join_network", network_id, RADIO_ERROR_POWER_FAILURE)
    ELSE IF (rf % 100) < 10
    THEN Done("radio_join_network", network_id, RADIO_ERROR_TIMEOUT, NoOutput,
              [g_radio EXCEPT !.network_info.network_id = network_id])
    ELSE Done("radio_join_network", network_id, RADIO_OK, NoOutput,
              [g_radio EXCEPT
                  !.network_info = [network_id |-> network_id,
                                    connected_devices |-> (r % 10) + 1,
                                    signal_strength |-> simulate_rssi(r),
                                    link_quality |-> (r % 30) + 70,
                                    uptime_seconds |-> 0,
                                    is_gateway |-> FALSE,
                                    hop_count |-> (r % 5) + 1],
                  !.connected_to_network = TRUE])

\* rf is the rand() result of the 10% failure draw, r the one the association
\* fields are filled from.
radio_join_network(network_id, network_key, rf, r) ==
    IF ~g_radio.initialized
    THEN Fail("radio_join_network", network_id, RADIO_ERROR_INIT)
    ELSE IF network_key = NULL
    THEN Fail("radio_join_network", network_id, RADIO_ERROR_INVALID_PARAM)
    ELSE IF PoweredOff(g_radio)
    THEN Fail("radio_join_network", network_id, RADIO_ERROR_POWER_FAILURE)
    ELSE IF (rf % 100) < 10
    THEN Fail("radio_join_network", network_id, RADIO_ERROR_TIMEOUT)
    ELSE Done("radio_join_network", network_id, RADIO_OK, NoOutput,
              [g_radio EXCEPT
                  !.network_info = [network_id |-> network_id,
                                    connected_devices |-> (r % 10) + 1,
                                    signal_strength |-> simulate_rssi(r),
                                    link_quality |-> (r % 30) + 70,
                                    uptime_seconds |-> 0,
                                    is_gateway |-> FALSE,
                                    hop_count |-> (r % 5) + 1],
                  !.connected_to_network = TRUE])

\* A variant of radio_leave_network that resets the association only if the
\* radio is connected.
radio_leave_network_if_connected ==
    IF ~g_radio.initialized
    THEN Fail("radio_leave_network", NoOutput, RADIO_ERROR_INIT)
    ELSE IF ~g_radio.connected_to_network
    THEN Done("radio_leave_network", NoOutput, RADIO_OK, NoOutput, g_radio)
    ELSE Done("radio_leave_network", NoOutput, RADIO_OK, NoOutput,
              [g_radio EXCEPT
                  !.connected_to_network = FALSE,
                  !.network_info.hop_count = HOP_NOT_CONNECTED,
                  !.network_info.link_quality = 0])

radio_leave_network ==
    IF ~g_radio.initialized
    THEN Fail("radio_leave_network", NoOutput, RADIO_ERROR_INIT)
    ELSE Done("radio_leave_network", NoOutput, RADIO_OK, NoOutput,
              [g_radio EXCEPT
                  !.connected_to_network = FALSE,
                  !.network_info.hop_count = HOP_NOT_CONNECTED,
                  !.network_info.link_quality = 0])

\* A variant of radio_get_network_info without the connected_to_network test.
radio_get_network_info_unchecked(network_info, r) ==
    IF ~g_radio.initialized
    THEN Fail("radio_get_network_info", network_info, RADIO_ERROR_INIT)
    ELSE IF network_info = NULL
    THEN Fail("radio_get_network_info", network_info, RADIO_ERROR_INVALID_PARAM)
    ELSE LET info == [g_radio.network_info EXCEPT
                         !.signal_strength = simulate_rssi(r),
                         !.uptime_seconds =
                             (get_current_time_ms - g_radio.last_activity_time)
                                 \div 1000]
         IN  Done("radio_get_network_info", network_info, RADIO_OK, info,
                  [g_radio EXCEPT !.network_info = info])

\* A variant of radio_get_network_info that copies the stored network_info
\* out without recomputing uptime_seconds.
radio_get_network_info_stored_uptime(network_info, r) ==
    IF ~g_radio.initialized
    THEN Fail("radio_get_network_info", network_info, RADIO_ERROR_INIT)
    ELSE IF network_info = NULL
    THEN Fail("radio_get_network_info", network_info, RADIO_ERROR_INVALID_PARAM)
    ELSE IF ~g_radio.connected_to_network
    THEN Fail("radio_get_network_info", network_info, RADIO_ERROR_NOT_CONNECTED)
    ELSE LET info == [g_radio.network_info EXCEPT
                         !.signal_strength = simulate_rssi(r)]
         IN  Done("radio_get_network_info", network_info, RADIO_OK, info,
                  [g_radio EXCEPT !.network_info = info])

\* The refreshed network_info is stored in g_radio and copied out.
radio_get_network_info(network_info, r) ==
    IF ~g_radio.initialized
    THEN Fail("radio_get_network_info", network_info, RADIO_ERROR_INIT)
    ELSE IF network_info = NULL
    THEN Fail("radio_get_network_info", network_info, RADIO_ERROR_INVALID_PARAM)
    ELSE IF ~g_radio.connected_to_network
    THEN Fail("radio_get_network_info", network_info, RADIO_ERROR_NOT_CONNECTED)
    ELSE LET info == [g_radio.network_info EXCEPT
                         !.signal_strength = simulate_rssi(r),
                         !.uptime_seconds =
                             (get_current_time_ms - g_radio.last_activity_time)
                                 \div 1000]
         IN  Done("radio_get_network_info", network_info, RADIO_OK, info,
                  [g_radio EXCEPT !.network_info = info])

(***************************************************************************)
(* Telemetry and diagnostics                                               *)
(***************************************************************************)
\* A variant of radio_measure_rssi without the test for RADIO_POWER_OFF.
radio_measure_rssi_unpowered(rssi, r) ==
    IF ~g_radio.initialized
    THEN Fail("radio_measure_rssi", rssi, RADIO_ERROR_INIT)
    ELSE IF rssi = NULL
    THEN Fail("radio_measure_rssi", rssi, RADIO_ERROR_INVALID_PARAM)
    ELSE Done("radio_measure_rssi", rssi, RADIO_OK, simulate_rssi(r),
              [g_radio EXCEPT !.stats.last_rssi = simulate_rssi(r)])

radio_measure_rssi(rssi, r) ==
    IF ~g_radio.initialized
    THEN Fail("radio_measure_rssi", rssi, RADIO_ERROR_INIT)
    ELSE IF rssi = NULL
    THEN Fail("radio_measure_rssi", rssi, RADIO_ERROR_INVALID_PARAM)
    ELSE IF PoweredOff(g_radio)
    THEN Fail("radio_measure_rssi", rssi, RADIO_ERROR_POWER_FAILURE)
    ELSE Done("radio_measure_rssi", rssi, RADIO_OK, simulate_rssi(r),
              [g_radio EXCEPT !.stats.last_rssi = simulate_rssi(r)])

radio_get_channel_utilization(utilization, r) ==
    IF ~g_radio.initialized
    THEN Fail("radio_get_channel_utilization", utilization, RADIO_ERROR_INIT)
    ELSE IF utilization = NULL
    THEN Fail("radio_get_channel_utilization", utilization,
              RADIO_ERROR_INVALID_PARAM)
    ELSE IF PoweredOff(g_radio)
    THEN Fail("radio_get_channel_utilization", utilization,
              RADIO_ERROR_POWER_FAILURE)
    ELSE Done("radio_get_channel_utilization", utilization, RADIO_OK,
              simulate_channel_utilization(r),
              [g_radio EXCEPT
                  !.stats.channel_utilization = simulate_channel_utilization(r)])

\* A variant of radio_get_statistics that adds the time since the last
\* activity to the accumulated airtime.
radio_get_statistics_counts_airtime(stats, r1, r2) ==
    IF ~g_radio.initialized
    THEN Fail("radio_get_statistics", stats, RADIO_ERROR_INIT)
    ELSE IF stats = NULL
    THEN Fail("radio_get_statistics", stats, RADIO_ERROR_INVALID_PARAM)
    ELSE LET elapsed_ms == get_current_time_ms - g_radio.last_activity_time
             refreshed ==
                 [g_radio.stats EXCEPT
                     !.last_rssi = simulate_rssi(r1),
                     !.channel_utilization = simulate_channel_utilization(r2),
                     !.total_airtime_ms = @ + elapsed_ms,
                     !.power_consumption_mw =
                         radio_estimate_power_consumption(g_radio.power_state,
                                                          elapsed_ms) \div 1000]
         IN  Done("radio_get_statistics", stats, RADIO_OK, refreshed,
                  [g_radio EXCEPT !.stats = refreshed])

\* r1, r2: the rand() results of simulate_rssi and simulate_channel_utilization.
radio_get_statistics(stats, r1, r2) ==
    IF ~g_radio.initialized
    THEN Fail("radio_get_statistics", stats, RADIO_ERROR_INIT)
    ELSE IF stats = NULL
    THEN Fail("radio_get_statistics", stats, RADIO_ERROR_INVALID_PARAM)
    ELSE LET elapsed_ms == get_current_time_ms - g_radio.last_activity_time
             refreshed ==
                 [g_radio.stats EXCEPT
                     !.last_rssi = simulate_rssi(r1),
                     !.channel_utilization = simulate_channel_utilization(r2),
                     !.power_consumption_mw =
                         radio_estimate_power_consumption(g_radio.power_state,
                                                          elapsed_ms) \div 1000]
         IN  Done("radio_get_statistics", stats, RADIO_OK, refreshed,
                  [g_radio EXCEPT !.stats = refreshed])

\* A variant of radio_reset_statistics that keeps the accumulated airtime.
radio_reset_statistics_keeps_airtime(r) ==
    IF ~g_radio.initialized
    THEN Fail("radio_reset_statistics", NoOutput, RADIO_ERROR_INIT)
    ELSE Done("radio_reset_statistics", NoOutput, RADIO_OK, NoOutput,
              [g_radio EXCEPT
                  !.stats = [ZeroStats EXCEPT
                                !.last_rssi = simulate_rssi(r),
                                !.total_airtime_ms =
                                    g_radio.stats.total_airtime_ms]])

radio_reset_statistics(r) ==
    IF ~g_radio.initialized
    THEN Fail("radio_reset_statistics", NoOutput, RADIO_ERROR_INIT)
    ELSE Done("radio_reset_statistics", NoOutput, RADIO_OK, NoOutput,
              [g_radio EXCEPT
                  !.stats = [ZeroStats EXCEPT !.last_rssi = simulate_rssi(r)]])

\* *test_results = 0xFFFFFFFF, written here as the string of that literal.
radio_self_test(test_results) ==
    IF ~g_radio.initialized
    THEN Fail("radio_self_test", test_results, RADIO_ERROR_INIT)
    ELSE IF test_results = NULL
    THEN Fail("radio_self_test", test_results, RADIO_ERROR_INVALID_PARAM)
    ELSE Done("radio_self_test", test_results, RADIO_OK, "0xFFFFFFFF", g_radio)

\* const char *version = "v2.1.4-sim"
FirmwareVersion == <<"v", "2", ".", "1", ".", "4", "-", "s", "i", "m">>

\* A variant of radio_get_firmware_version that validates its parameters
\* before it looks at g_radio.initialized.
radio_get_firmware_version_params_first(version_string, buffer_size) ==
    IF version_string = NULL \/ buffer_size < 8
    THEN Fail("radio_get_firmware_version", buffer_size,
              RADIO_ERROR_INVALID_PARAM)
    ELSE IF ~g_radio.initialized
    THEN Fail("radio_get_firmware_version", buffer_size, RADIO_ERROR_INIT)
    ELSE LET len == IF Len(FirmwareVersion) >= buffer_size
                    THEN buffer_size - 1
                    ELSE Len(FirmwareVersion)
         IN  Done("radio_get_firmware_version", buffer_size, RADIO_OK,
                  SubSeq(FirmwareVersion, 1, len), g_radio)

\* The characters written before the terminating '\0'.
radio_get_firmware_version(version_string, buffer_size) ==
    IF ~g_radio.initialized
    THEN Fail("radio_get_firmware_version", buffer_size, RADIO_ERROR_INIT)
    ELSE IF version_string = NULL \/ buffer_size < 8
    THEN Fail("radio_get_firmware_version", buffer_size,
              RADIO_ERROR_INVALID_PARAM)
    ELSE LET len == IF Len(FirmwareVersion) >= buffer_size
                    THEN buffer_size - 1
                    ELSE Len(FirmwareVersion)
         IN  Done("radio_get_firmware_version", buffer_size, RADIO_OK,
                  SubSeq(FirmwareVersion, 1, len), g_radio)


(***************************************************************************)
(* Receive pipeline                                                        *)
(***************************************************************************)
\* The packet simulate_packet_reception generates into the head slot.  Its
\* packet_id is rand() % 65536: the model draws, for the k-th arrival since
\* radio_init, the value k, so that buffered packets can be told apart.  r
\* stands for the rand() results of the source address and the payload size.
SimulatedPacket(g, tr, r) ==
    [destination |-> g.config.device_address,
     source |-> r % 256,
     packet_id |-> (tr.enq + 1) % UINT16_MOD,
     priority |-> RADIO_PRIORITY_NORMAL,
     payload_size |-> (r % 100) + 1,
     timestamp |-> get_current_time_ms,
     require_ack |-> FALSE,
     retry_count |-> 0]

\* A variant of the enqueue that does not count the packet as received.
Enqueue_uncounted(g, packet) ==
    [g EXCEPT
        !.rx_buffer[g.rx_buffer_head] = packet,
        !.rx_buffer_head = (@ + 1) % RX_BUFFER_SIZE,
        !.rx_buffer_count = @ + 1]

\* A variant of the enqueue that only writes the packet into the head slot:
\* the callback is entered before head, count and packets_received are
\* advanced.
Enqueue_not_yet_advanced(g, packet) ==
    [g EXCEPT !.rx_buffer[g.rx_buffer_head] = packet]

\* A variant of the enqueue that loses the packet: the head is advanced and
\* the packet counted as received, the occupancy is not.
Enqueue_lost(g, packet) ==
    [g EXCEPT
        !.rx_buffer[g.rx_buffer_head] = packet,
        !.rx_buffer_head = (@ + 1) % RX_BUFFER_SIZE,
        !.stats.packets_received = @ + 1]

\* The packet is written at rx_buffer_head; head, count and packets_received
\* are advanced.
Enqueue(g, packet) ==
    [g EXCEPT
        !.rx_buffer[g.rx_buffer_head] = packet,
        !.rx_buffer_head = (@ + 1) % RX_BUFFER_SIZE,
        !.rx_buffer_count = @ + 1,
        !.stats.packets_received = @ + 1]

\* A variant that copies out the newest packet (the slot before
\* rx_buffer_head) instead of the oldest.
FrontPacket_newest(g) ==
    g.rx_buffer[(g.rx_buffer_head + RX_BUFFER_SIZE - 1) % RX_BUFFER_SIZE]

\* The packet radio_receive_packet copies out, and the buffer after it.
FrontPacket(g) == g.rx_buffer[g.rx_buffer_tail]

\* A variant of the dequeue that advances the tail past two slots.
Dequeue_skips_slot(g) ==
    [g EXCEPT
        !.rx_buffer_tail = (@ + 2) % RX_BUFFER_SIZE,
        !.rx_buffer_count = @ - 1]

\* A variant of the dequeue that advances the tail but keeps the count.
Dequeue_keeps_count(g) ==
    [g EXCEPT !.rx_buffer_tail = (@ + 1) % RX_BUFFER_SIZE]

Dequeue(g) ==
    [g EXCEPT
        !.rx_buffer_tail = (@ + 1) % RX_BUFFER_SIZE,
        !.rx_buffer_count = @ - 1]

\* A variant of the room check that is off by one.
HasRoom_inclusive(g) == g.rx_buffer_count <= RX_BUFFER_SIZE

\* Whether simulate_packet_reception takes the buffer as having room.
HasRoom(g) == g.rx_buffer_count < RX_BUFFER_SIZE

\* A variant of simulate_packet_reception that also receives in STANDBY.
simulate_packet_reception_in_standby(g, tr, d) ==
    IF /\ g.power_state # RADIO_POWER_RX
       /\ g.power_state # RADIO_POWER_IDLE
       /\ g.power_state # RADIO_POWER_STANDBY
    THEN [g |-> g, tr |-> tr, rx |-> "none", cb |-> "none"]
    ELSE IF (d.arrive % 100) < 5
    THEN IF HasRoom(g)
         THEN LET packet == SimulatedPacket(g, tr, d.fill)
                  g2 == Enqueue(g, packet)
              IN  IF g2.rx_callback # NULL
                  THEN [g |-> g2,
                        tr |-> [tr EXCEPT !.enq = @ + 1, !.cb = @ + 1,
                                          !.cb_packet = packet,
                                          !.cb_user_data = g2.rx_user_data],
                        rx |-> "enqueued",
                        cb |-> IF d.reenter THEN "reenters" ELSE "returns"]
                  ELSE [g |-> g2, tr |-> [tr EXCEPT !.enq = @ + 1],
                        rx |-> "enqueued", cb |-> "none"]
         ELSE [g |-> g, tr |-> tr, rx |-> "dropped", cb |-> "none"]
    ELSE [g |-> g, tr |-> tr, rx |-> "none", cb |-> "none"]

\* A variant of simulate_packet_reception in which a registered callback
\* consumes the arrival: the packet is handed over and not enqueued.
simulate_packet_reception_callback_consumes(g, tr, d) ==
    IF g.power_state # RADIO_POWER_RX /\ g.power_state # RADIO_POWER_IDLE
    THEN [g |-> g, tr |-> tr, rx |-> "none", cb |-> "none"]
    ELSE IF (d.arrive % 100) < 5
    THEN IF HasRoom(g)
         THEN LET packet == SimulatedPacket(g, tr, d.fill)
                  g2 == Enqueue(g, packet)
              IN  IF g2.rx_callback # NULL
                  THEN [g |-> [g EXCEPT !.stats.packets_received = @ + 1],
                        tr |-> [tr EXCEPT !.cb = @ + 1,
                                          !.cb_packet = packet,
                                          !.cb_user_data = g2.rx_user_data],
                        rx |-> "enqueued",
                        cb |-> IF d.reenter THEN "reenters" ELSE "returns"]
                  ELSE [g |-> g2, tr |-> [tr EXCEPT !.enq = @ + 1],
                        rx |-> "enqueued", cb |-> "none"]
         ELSE [g |-> g, tr |-> tr, rx |-> "dropped", cb |-> "none"]
    ELSE [g |-> g, tr |-> tr, rx |-> "none", cb |-> "none"]

\* simulate_packet_reception() on radio state g with history tr.  d holds the
\* rand() results (d.arrive: the 5% draw, d.fill: the packet's fields) and
\* d.reenter: whether the callback, if one is invoked, calls the radio API
\* before it returns.  The result: the state and history after the enqueue,
\* rx (what became of the arrival) and cb (how the callback was invoked).
simulate_packet_reception(g, tr, d) ==
    IF g.power_state # RADIO_POWER_RX /\ g.power_state # RADIO_POWER_IDLE
    THEN [g |-> g, tr |-> tr, rx |-> "none", cb |-> "none"]
    ELSE IF (d.arrive % 100) < 5
    THEN IF HasRoom(g)
         THEN LET packet == SimulatedPacket(g, tr, d.fill)
                  g2 == Enqueue(g, packet)
              IN  IF g2.rx_callback # NULL
                  THEN [g |-> g2,
                        tr |-> [tr EXCEPT !.enq = @ + 1, !.cb = @ + 1,
                                          !.cb_packet = packet,
                                          !.cb_user_data = g2.rx_user_data],
                        rx |-> "enqueued",
                        cb |-> IF d.reenter THEN "reenters" ELSE "returns"]
                  ELSE [g |-> g2, tr |-> [tr EXCEPT !.enq = @ + 1],
                        rx |-> "enqueued", cb |-> "none"]
         ELSE [g |-> g, tr |-> tr, rx |-> "dropped", cb |-> "none"]
    ELSE [g |-> g, tr |-> tr, rx |-> "none", cb |-> "none"]

\* radio_receive_packet returning res (and the packet out).
Outcome(g, tr, res, out, rx) ==
    [kind |-> "return", g |-> g, tr |-> tr, res |-> res, out |-> out, rx |-> rx,
     phase |-> 0]

\* radio_receive_packet suspended in the callback of its phase-th
\* simulate_packet_reception call.
Suspended(g, tr, phase) ==
    [kind |-> "callback", g |-> g, tr |-> tr, res |-> RADIO_OK,
     out |-> NoOutput, rx |-> "enqueued", phase |-> phase]

\* "Check if we have packets in buffer": the head of the queue is copied out.
PopOr(g, tr, rx, otherwise) ==
    IF g.rx_buffer_count > 0
    THEN Outcome(Dequeue(g), [tr EXCEPT !.deq = @ + 1], RADIO_OK,
                 FrontPacket(g), rx)
    ELSE otherwise

\* radio_receive_packet from the return of its second simulate call on.
AfterSecondSimulate(g, tr, rx) ==
    PopOr(g, tr, rx, Outcome(g, tr, RADIO_ERROR_TIMEOUT, NoOutput, rx))

\* A variant without the "timeout_ms == 0" branch: an empty buffer is always
\* reported as a timeout.
AfterFirstSimulate_no_poll(g, tr, timeout_ms, rx, d2) ==
    PopOr(g, tr, rx,
          IF timeout_ms > 100
          THEN LET s == simulate_packet_reception(g, tr, d2)
               IN  IF s.cb = "reenters" THEN Suspended(s.g, s.tr, 2)
                   ELSE AfterSecondSimulate(s.g, s.tr, s.rx)
          ELSE Outcome(g, tr, RADIO_ERROR_TIMEOUT, NoOutput, rx))

\* radio_receive_packet from the return of its first simulate call on; d2 are
\* the draws of the second simulate call (made when timeout_ms > 100).
AfterFirstSimulate(g, tr, timeout_ms, rx, d2) ==
    PopOr(g, tr, rx,
          IF timeout_ms = 0
          THEN Outcome(g, tr, RADIO_ERROR_BUFFER_EMPTY, NoOutput, rx)
          ELSE IF timeout_ms > 100
          THEN LET s == simulate_packet_reception(g, tr, d2)
               IN  IF s.cb = "reenters" THEN Suspended(s.g, s.tr, 2)
                   ELSE AfterSecondSimulate(s.g, s.tr, s.rx)
          ELSE Outcome(g, tr, RADIO_ERROR_TIMEOUT, NoOutput, rx))

\* The step that outcome o of the activation (timeout_ms, from) amounts to:
\* the call returns, or it is pushed on `below` while its callback runs.
\* maxArr and maxDepth bound the arrivals and the callback depth explored.
ReceiveStep(o, timeout_ms, from, below, maxArr, maxDepth) ==
    /\ o.tr.enq <= maxArr
    /\ g_radio' = o.g
    /\ rx_trace' = o.tr
    /\ UNCHANGED <<clock_ms, sensor_vars>>
    /\ IF o.kind = "return"
       THEN /\ frames' = below
            /\ ret' = [op |-> "radio_receive_packet",
                       arg |-> <<"valid", timeout_ms>>,
                       res |-> o.res, out |-> o.out, rx |-> o.rx, from |-> from,
                       at |-> clock_ms]
       ELSE /\ Len(below) < maxDepth
            /\ frames' = Append(below, [phase |-> o.phase,
                                        timeout_ms |-> timeout_ms,
                                        from |-> from,
                                        called |-> FALSE])
            /\ ret' = [op |-> "rx_callback", arg |-> o.tr.cb_user_data,
                       res |-> RADIO_OK, out |-> o.tr.cb_packet,
                       rx |-> o.rx, from |-> from, at |-> clock_ms]

radio_receive_packet(packet, timeout_ms, d1, d2, maxArr, maxDepth) ==
    IF ~g_radio.initialized
    THEN Fail("radio_receive_packet", <<packet, timeout_ms>>, RADIO_ERROR_INIT)
    ELSE IF packet = NULL
    THEN Fail("radio_receive_packet", <<packet, timeout_ms>>,
              RADIO_ERROR_INVALID_PARAM)
    ELSE IF PoweredOff(g_radio)
    THEN Fail("radio_receive_packet", <<packet, timeout_ms>>,
              RADIO_ERROR_POWER_FAILURE)
    ELSE LET s == simulate_packet_reception(g_radio, rx_trace, d1)
         IN  ReceiveStep(IF s.cb = "reenters" THEN Suspended(s.g, s.tr, 1)
                         ELSE AfterFirstSimulate(s.g, s.tr, timeout_ms, s.rx, d2),
                         timeout_ms, Entry, Called(frames), maxArr, maxDepth)

\* The running receive callback returns: the radio_receive_packet that
\* invoked it goes on from the simulate call it was suspended in.
CallbackReturn(d2, maxArr, maxDepth) ==
    /\ frames # <<>>
    /\ LET f == frames[Len(frames)]
           below == SubSeq(frames, 1, Len(frames) - 1)
       IN  ReceiveStep(IF f.phase = 1
                       THEN AfterFirstSimulate(g_radio, rx_trace, f.timeout_ms,
                                               "enqueued", d2)
                       ELSE AfterSecondSimulate(g_radio, rx_trace, "enqueued"),
                       f.timeout_ms, f.from, below, maxArr, maxDepth)


(***************************************************************************)
(* Inputs                                                                  *)
(***************************************************************************)
\* The configuration of the integration example, and one at the limits of
\* what validate_config accepts.
ExampleConfig ==
    [channel |-> 10, data_rate |-> RADIO_DATA_RATE_50K,
     modulation |-> RADIO_MODULATION_GFSK, device_address |-> 1,
     network_id |-> 4660, max_retries |-> 3, tx_timeout_ms |-> 5000]

LimitConfig ==
    [channel |-> RADIO_MAX_CHANNELS - 1, data_rate |-> RADIO_DATA_RATE_1K,
     modulation |-> RADIO_MODULATION_OOK, device_address |-> 2,
     network_id |-> 7, max_retries |-> RADIO_MAX_RETRIES, tx_timeout_ms |-> 1]

ValidConfigs == {ExampleConfig, LimitConfig}

\* One field out of range each, at the first and at the last invalid value.
InvalidConfigs ==
    {[ExampleConfig EXCEPT !.channel = RADIO_MAX_CHANNELS],
     [ExampleConfig EXCEPT !.channel = UINT8_MAX],
     [LimitConfig EXCEPT !.max_retries = RADIO_MAX_RETRIES + 1],
     [ExampleConfig EXCEPT !.tx_timeout_ms = 0],
     [LimitConfig EXCEPT !.channel = RADIO_MAX_CHANNELS, !.tx_timeout_ms = 0]}

ConfigArgs == {<<>>} \cup {<<c>> : c \in ValidConfigs \cup InvalidConfigs}

\* rand() results: 3 takes every "rand() % 100 < n" branch, 57 takes none.
RandDraws == {3, 57}

PayloadSizes == {0, 32, RADIO_MAX_PAYLOAD_SIZE, RADIO_MAX_PAYLOAD_SIZE + 1,
                 UINT8_MAX}

PacketArgs ==
    {<<>>} \cup {<<[ZeroPacket EXCEPT !.payload_size = n]>> : n \in PayloadSizes}

\* radio_power_state_t arguments, one below and one above the enum included.
PowerArgs == (RADIO_POWER_OFF - 1) .. (RADIO_POWER_TX + 1)

TimeoutArgs == {0, 100, 101}

TxIdArgs == 0 .. MaxSent + 1

Callbacks == {NULL, "on_packet"}
UserData == {NULL, "ctx"}

NetworkIds == {1000, 1001}

\* The draws of one simulate_packet_reception call.
SimDraws == [arrive : RandDraws, fill : {57}, reenter : BOOLEAN]

(***************************************************************************)
(* The full API, driven by an application and by its receive callback      *)
(***************************************************************************)
Next ==
    \/ \E c \in ConfigArgs, r \in RandDraws : radio_init(c, r, r)
    \/ \E c \in ConfigArgs : radio_configure(c)
    \/ \E p \in PowerArgs : radio_set_power_state(p)
    \/ \E o \in PtrArgs : radio_get_power_state(o)
    \/ \E p \in PacketArgs, r \in RandDraws : radio_send_packet(p, r)
    \/ \E p \in PacketArgs, o \in PtrArgs : radio_send_packet_async(p, o)
    \/ \E t \in TxIdArgs, o \in PtrArgs : radio_get_tx_status(t, o)
    \/ \E o \in PtrArgs, t \in TimeoutArgs, d1, d2 \in SimDraws :
           radio_receive_packet(o, t, d1, d2, MaxArrivals, MaxDepth)
    \/ \E d2 \in SimDraws : CallbackReturn(d2, MaxArrivals, MaxDepth)
    \/ \E f \in Callbacks, u \in UserData : radio_set_rx_callback(f, u)
    \/ \E f \in Callbacks, u \in UserData : radio_set_event_callback(f, u)
    \/ \E n \in PtrArgs, m \in {0, 3, 8}, o \in PtrArgs, r \in RandDraws :
           radio_scan_networks(n, m, o, r, r)
    \/ \E id \in NetworkIds, k \in PtrArgs, rf, r \in RandDraws :
           radio_join_network(id, k, rf, r)
    \/ radio_leave_network
    \/ \E o \in PtrArgs, r \in RandDraws : radio_get_network_info(o, r)
    \/ \E o \in PtrArgs, r \in RandDraws : radio_measure_rssi(o, r)
    \/ \E o \in PtrArgs, r \in RandDraws : radio_get_channel_utilization(o, r)
    \/ \E o \in PtrArgs, r \in RandDraws : radio_get_statistics(o, r, r)
    \/ \E r \in RandDraws : radio_reset_statistics(r)
    \/ \E o \in PtrArgs : radio_self_test(o)
    \/ \E o \in PtrArgs, n \in {7, 8, 10, 11} : radio_get_firmware_version(o, n)
    \/ radio_deinit
    \/ Tick

Spec == Init /\ [][Next]_vars


(***************************************************************************)
(* The lifecycle: an application that initializes, configures, powers and  *)
(* tears down the radio, registers callbacks and joins a network, and that *)
(* calls every other function only while the radio is not initialized      *)
(* (before the first radio_init, or after a radio_deinit).                 *)
(***************************************************************************)
Uninitialized == ~g_radio.initialized

NextLife ==
    \/ \E c \in ConfigArgs : radio_init(c, 57, 57)
    \/ \E c \in ConfigArgs : radio_configure(c)
    \/ \E p \in PowerArgs : radio_set_power_state(p)
    \/ \E o \in PtrArgs : radio_get_power_state(o)
    \/ radio_set_rx_callback("on_packet", "ctx")
    \/ radio_set_event_callback("on_event", "ctx")
    \/ \E rf \in RandDraws : radio_join_network(1000, "valid", rf, 57)
    \/ radio_leave_network
    \/ radio_deinit
    \/ /\ Uninitialized
       /\ \E p \in PacketArgs : radio_send_packet(p, 57)
    \/ /\ Uninitialized
       /\ \E p \in PacketArgs, o \in PtrArgs : radio_send_packet_async(p, o)
    \/ Uninitialized /\ \E o \in PtrArgs : radio_get_tx_status(1, o)
    \/ /\ Uninitialized
       /\ \E o \in PtrArgs, t \in TimeoutArgs :
              radio_receive_packet(o, t, [arrive |-> 3, fill |-> 57,
                                          reenter |-> FALSE],
                                   [arrive |-> 3, fill |-> 57,
                                    reenter |-> FALSE],
                                   MaxArrivals, MaxDepth)
    \/ /\ Uninitialized
       /\ \E n, o \in PtrArgs : radio_scan_networks(n, 3, o, 57, 57)
    \/ Uninitialized /\ \E o \in PtrArgs : radio_get_network_info(o, 57)
    \/ Uninitialized /\ \E o \in PtrArgs : radio_measure_rssi(o, 57)
    \/ Uninitialized /\ \E o \in PtrArgs : radio_get_channel_utilization(o, 57)
    \/ Uninitialized /\ \E o \in PtrArgs : radio_get_statistics(o, 57, 57)
    \/ Uninitialized /\ radio_reset_statistics(57)
    \/ Uninitialized /\ \E o \in PtrArgs : radio_self_test(o)
    \/ /\ Uninitialized
       /\ \E o \in PtrArgs, n \in {7, 11} : radio_get_firmware_version(o, n)

SpecLife == Init /\ [][NextLife]_vars

(***************************************************************************)
(* The transmit pipeline: an application that powers the radio up and      *)
(* down and sends packets of every size, synchronously and asynchronously. *)
(***************************************************************************)
NextTx ==
    \/ \E c \in ValidConfigs : radio_init(<<c>>, 57, 57)
    \/ \E p \in PowerStates : radio_set_power_state(p)
    \/ \E p \in PacketArgs, r \in RandDraws : radio_send_packet(p, r)
    \/ \E p \in PacketArgs, o \in PtrArgs : radio_send_packet_async(p, o)
    \/ \E t \in TxIdArgs : radio_get_tx_status(t, "valid")
    \/ radio_reset_statistics(57)

SpecTx == Init /\ [][NextTx]_vars

(***************************************************************************)
(* The network manager: an application that scans, joins and leaves        *)
(* networks and reads the association back, while time passes.             *)
(***************************************************************************)
NextNet ==
    \/ radio_init(<<ExampleConfig>>, 57, 57)
    \/ \E p \in {RADIO_POWER_OFF, RADIO_POWER_SLEEP, RADIO_POWER_IDLE} :
           radio_set_power_state(p)
    \/ \E n, o \in PtrArgs, m \in {0, 3, 8}, rn \in RandDraws :
           radio_scan_networks(n, m, o, rn, 57)
    \/ \E id \in NetworkIds, k \in PtrArgs, rf, r \in RandDraws :
           radio_join_network(id, k, rf, r)
    \/ radio_leave_network
    \/ \E o \in PtrArgs, r \in RandDraws : radio_get_network_info(o, r)
    \/ radio_deinit
    \/ Tick

SpecNet == Init /\ [][NextNet]_vars

(***************************************************************************)
(* The receive pipeline, wide: an application that polls the radio in      *)
(* every power state, with and without a receive callback, and whose       *)
(* callback, when it re-enters the driver, makes one radio call and        *)
(* returns.                                                                *)
(***************************************************************************)
MaxArrivalsRx == 3
MaxDepthRx == 2

\* The draws of a simulate_packet_reception call, and those of a call that
\* is not made (radio_receive_packet simulates twice only if timeout_ms > 100).
RxDraws == [arrive : RandDraws, fill : {57}, reenter : BOOLEAN]
NoDraws == [arrive |-> 57, fill |-> 57, reenter |-> FALSE]
SecondDraws(timeout_ms) == IF timeout_ms > 100 THEN RxDraws ELSE {NoDraws}

\* The application is running, no callback is.
InApplication == frames = <<>>
\* The receive callback is running and has not called the driver yet.
InCallback == frames # <<>> /\ ~frames[Len(frames)].called

NextRx ==
    \/ InApplication /\ radio_init(<<ExampleConfig>>, 57, 57)
    \/ InApplication /\ \E p \in PowerStates : radio_set_power_state(p)
    \/ InApplication /\ \E f \in Callbacks : radio_set_rx_callback(f, "ctx")
    \/ /\ InApplication
       /\ \E t \in TimeoutArgs, d1 \in RxDraws : \E d2 \in SecondDraws(t) :
              radio_receive_packet("valid", t, d1, d2, MaxArrivalsRx, MaxDepthRx)
    \/ /\ InCallback
       /\ \E d1 \in RxDraws :
              radio_receive_packet("valid", 0, d1, NoDraws,
                                   MaxArrivalsRx, MaxDepthRx)
    \/ InCallback /\ radio_set_rx_callback(NULL, NULL)
    \/ InCallback /\ radio_set_power_state(RADIO_POWER_OFF)
    \/ /\ frames # <<>>
       /\ \E d2 \in SecondDraws(frames[Len(frames)].timeout_ms) :
              CallbackReturn(d2, MaxArrivalsRx, MaxDepthRx)

SpecRx == Init /\ [][NextRx]_vars

(***************************************************************************)
(* The receive pipeline, deep: the application registers a callback that   *)
(* polls the radio once (radio_receive_packet with timeout 0) and returns. *)
(* Between two calls of the application the buffer is empty; every level   *)
(* of the callback recursion holds one more buffered packet, which is how  *)
(* the 32 slots fill up and how the indices wrap around.                   *)
(***************************************************************************)
MaxArrivalsBuf == 34
MaxDepthBuf == 33

\* The callback of this application always re-enters.
BufDraws == [arrive : RandDraws, fill : {57}, reenter : {TRUE}]
SecondBufDraws(timeout_ms) == IF timeout_ms > 100 THEN BufDraws ELSE {NoDraws}

NextBuf ==
    \/ InApplication /\ radio_init(<<ExampleConfig>>, 57, 57)
    \/ InApplication /\ radio_set_rx_callback("on_packet", "ctx")
    \/ /\ InApplication
       /\ \E t \in {0, 101}, d1 \in BufDraws : \E d2 \in SecondBufDraws(t) :
              radio_receive_packet("valid", t, d1, d2,
                                   MaxArrivalsBuf, MaxDepthBuf)
    \/ /\ InCallback
       /\ \E d1 \in BufDraws :
              radio_receive_packet("valid", 0, d1, NoDraws,
                                   MaxArrivalsBuf, MaxDepthBuf)
    \/ /\ frames # <<>>
       /\ \E d2 \in SecondBufDraws(frames[Len(frames)].timeout_ms) :
              CallbackReturn(d2, MaxArrivalsBuf, MaxDepthBuf)

SpecBuf == Init /\ [][NextBuf]_vars


(***************************************************************************)
(* Properties                                                              *)
(***************************************************************************)
\* The step is the return of a call of `op` (a step of Tick leaves ret alone).
CallReturned(op) ==
    /\ ret'.op = op
    /\ <<g_radio, ret, frames, rx_trace>>' # <<g_radio, ret, frames, rx_trace>>

\* C1: for every configuration with channel < 125, max_retries <= 5 and
\* tx_timeout_ms > 0, radio_init returns RADIO_OK from any prior state and
\* leaves the radio initialized in RADIO_POWER_IDLE, and the
\* radio_get_power_state call that follows it returns RADIO_OK and writes
\* RADIO_POWER_IDLE.
C1_InitThenIdle ==
    [][/\ ( /\ CallReturned("radio_init")
            /\ ret'.arg # <<>>
            /\ ret'.arg[1].channel < 125
            /\ ret'.arg[1].max_retries <= 5
            /\ ret'.arg[1].tx_timeout_ms > 0 )
          => /\ ret'.res = RADIO_OK
             /\ g_radio'.initialized
             /\ g_radio'.power_state = RADIO_POWER_IDLE
       /\ ( /\ ret.op = "radio_init"
            /\ ret.res = RADIO_OK
            /\ CallReturned("radio_get_power_state")
            /\ ret'.arg # NULL )
          => /\ ret'.res = RADIO_OK
             /\ ret'.out = RADIO_POWER_IDLE]_vars

\* radio_init has accepted the configuration at the limits (channel 124,
\* max_retries 5, tx_timeout_ms 1) on a radio that was powered off before.
C1_Witness ==
    /\ ret.op = "radio_init"
    /\ ret.arg = <<LimitConfig>>
    /\ ret.res = RADIO_OK
    /\ ret.from.initialized
    /\ ret.from.power_state = RADIO_POWER_OFF
    /\ g_radio.power_state = RADIO_POWER_IDLE

\* C2: for every configuration with channel >= 125, max_retries > 5 or
\* tx_timeout_ms == 0, radio_init fails with RADIO_ERROR_CONFIG and changes no
\* radio state: an uninitialized radio stays uninitialized, and a radio that
\* was initialized stays initialized with the configuration it had.
C2_InvalidConfigChangesNothing ==
    [][( /\ CallReturned("radio_init")
         /\ ret'.arg # <<>>
         /\ \/ ret'.arg[1].channel >= 125
            \/ ret'.arg[1].max_retries > 5
            \/ ret'.arg[1].tx_timeout_ms = 0 )
       => /\ ret'.res = RADIO_ERROR_CONFIG
          /\ g_radio' = g_radio]_vars

\* radio_init has rejected channel 125 on a radio that was never initialized.
C2_Witness ==
    /\ ret.op = "radio_init"
    /\ ret.arg = <<[ExampleConfig EXCEPT !.channel = RADIO_MAX_CHANNELS]>>
    /\ ret.res = RADIO_ERROR_CONFIG
    /\ g_radio = ZeroState

\* C2 as stated: whatever the prior state, the radio is uninitialized after a
\* radio_init that failed with RADIO_ERROR_CONFIG.
C2_AsStated ==
    (ret.op = "radio_init" /\ ret.res = RADIO_ERROR_CONFIG)
        => ~g_radio.initialized

\* The stateful operations: every function of the driver that looks at
\* g_radio.initialized.
StatefulOps ==
    {"radio_configure", "radio_set_power_state", "radio_get_power_state",
     "radio_send_packet", "radio_send_packet_async", "radio_get_tx_status",
     "radio_receive_packet", "radio_set_rx_callback",
     "radio_set_event_callback", "radio_scan_networks", "radio_join_network",
     "radio_leave_network", "radio_get_network_info", "radio_measure_rssi",
     "radio_get_channel_utilization", "radio_get_statistics",
     "radio_reset_statistics", "radio_self_test",
     "radio_get_firmware_version", "radio_deinit"}

\* C3: every stateful operation called while the radio is not initialized
\* (before the first successful radio_init, or after a radio_deinit) returns
\* RADIO_ERROR_INIT, whatever its arguments, and changes no radio state.
C3_UninitializedFailsWithInit ==
    [][\A op \in StatefulOps :
          (CallReturned(op) /\ ~g_radio.initialized)
              => /\ ret'.res = RADIO_ERROR_INIT
                 /\ g_radio' = g_radio]_vars

\* radio_send_packet has failed with RADIO_ERROR_INIT after a radio_deinit
\* (the configuration of the earlier radio_init is still in g_radio).
C3_Witness ==
    /\ ret.op = "radio_send_packet"
    /\ ret.res = RADIO_ERROR_INIT
    /\ ~g_radio.initialized
    /\ g_radio.config = ExampleConfig


\* C4: in every initialized state, whatever the power state (Off included),
\* radio_send_packet with payload_size > 246 returns
\* RADIO_ERROR_PACKET_TOO_LARGE and leaves every statistics field and the
\* power state (in fact all of g_radio) as they were.
C4_OversizedRejected ==
    [][( /\ CallReturned("radio_send_packet")
         /\ g_radio.initialized
         /\ ret'.arg # <<>>
         /\ ret'.arg[1].payload_size > 246 )
       => /\ ret'.res = RADIO_ERROR_PACKET_TOO_LARGE
          /\ g_radio'.stats = g_radio.stats
          /\ g_radio'.power_state = g_radio.power_state
          /\ g_radio' = g_radio]_vars

\* A 247-byte packet has been refused in RADIO_POWER_RX after two packets
\* were sent, one of them lost.
C4_Witness ==
    /\ ret.op = "radio_send_packet"
    /\ ret.arg # <<>>
    /\ ret.arg[1].payload_size = RADIO_MAX_PAYLOAD_SIZE + 1
    /\ ret.res = RADIO_ERROR_PACKET_TOO_LARGE
    /\ ret.from.power_state = RADIO_POWER_RX
    /\ g_radio.stats.packets_sent = 2
    /\ g_radio.stats.packets_lost = 1

\* The packet argument of a returned radio_send_packet or
\* radio_send_packet_async call.
SentPacket(r) == IF r.op = "radio_send_packet" THEN r.arg ELSE r.arg[1]

\* Every pointer argument of the returned send call was non-NULL.
SendPointersValid(r) ==
    /\ SentPacket(r) # <<>>
    /\ r.op = "radio_send_packet_async" => r.arg[2] # NULL

\* C5: while the radio is initialized and powered Off, radio_send_packet and
\* radio_send_packet_async (called with non-NULL pointers) fail and change no
\* state; the error is RADIO_ERROR_POWER_FAILURE for payload_size <= 246 and
\* RADIO_ERROR_PACKET_TOO_LARGE for payload_size > 246, the size being checked
\* before the power state.
C5_OffRejectsSends ==
    [][\A op \in {"radio_send_packet", "radio_send_packet_async"} :
          ( /\ CallReturned(op)
            /\ g_radio.initialized
            /\ g_radio.power_state = RADIO_POWER_OFF
            /\ SendPointersValid(ret') )
          => /\ ret'.res = IF SentPacket(ret')[1].payload_size > 246
                           THEN RADIO_ERROR_PACKET_TOO_LARGE
                           ELSE RADIO_ERROR_POWER_FAILURE
             /\ g_radio' = g_radio]_vars

\* radio_send_packet_async has failed with RADIO_ERROR_POWER_FAILURE on a
\* 246-byte packet, on a radio that was powered off after it had sent.
C5_Witness ==
    /\ ret.op = "radio_send_packet_async"
    /\ ret.res = RADIO_ERROR_POWER_FAILURE
    /\ ret.arg[1] # <<>>
    /\ ret.arg[1][1].payload_size = RADIO_MAX_PAYLOAD_SIZE
    /\ ret.from.initialized
    /\ ret.from.power_state = RADIO_POWER_OFF
    /\ g_radio.stats.packets_sent > 0

\* C5 as stated: in Off both send functions fail with
\* RADIO_ERROR_POWER_FAILURE for every packet, whatever its payload size.
C5_AsStated ==
    [][\A op \in {"radio_send_packet", "radio_send_packet_async"} :
          ( /\ CallReturned(op)
            /\ g_radio.initialized
            /\ g_radio.power_state = RADIO_POWER_OFF
            /\ SendPointersValid(ret') )
          => /\ ret'.res = RADIO_ERROR_POWER_FAILURE
             /\ g_radio' = g_radio]_vars

\* C6: a radio_send_packet call that returns RADIO_OK or RADIO_ERROR_NO_ACK
\* was made in a powered state (Sleep, Standby, Idle, Rx or Tx) and leaves the
\* power state Idle and packets_sent one above its value before the call;
\* packets_lost is one above its value before the call if the result is
\* RADIO_ERROR_NO_ACK and unchanged if it is RADIO_OK.
C6_AcceptedSendReturnsToIdle ==
    [][( /\ CallReturned("radio_send_packet")
         /\ ret'.res \in {RADIO_OK, RADIO_ERROR_NO_ACK} )
       => /\ g_radio.power_state \in RADIO_POWER_SLEEP .. RADIO_POWER_TX
          /\ g_radio'.power_state = RADIO_POWER_IDLE
          /\ g_radio'.stats.packets_sent = g_radio.stats.packets_sent + 1
          /\ g_radio'.stats.packets_lost =
                 IF ret'.res = RADIO_ERROR_NO_ACK
                 THEN g_radio.stats.packets_lost + 1
                 ELSE g_radio.stats.packets_lost]_vars

\* A send started in RADIO_POWER_SLEEP has ended unacknowledged, in Idle.
C6_Witness ==
    /\ ret.op = "radio_send_packet"
    /\ ret.res = RADIO_ERROR_NO_ACK
    /\ ret.from.power_state = RADIO_POWER_SLEEP
    /\ g_radio.power_state = RADIO_POWER_IDLE
    /\ g_radio.stats.packets_sent = 2
    /\ g_radio.stats.packets_lost = 1


\* The step is the return of a radio_receive_packet(&packet, 0) that was
\* called on an initialized, powered-on radio with an empty receive buffer.
PolledEmptyBuffer ==
    /\ CallReturned("radio_receive_packet")
    /\ ret'.arg = <<"valid", 0>>
    /\ ret'.from.initialized
    /\ ret'.from.power_state # RADIO_POWER_OFF
    /\ ret'.from.rx_buffer_count = 0

C8_FifoOrder ==
    [][/\ ( CallReturned("radio_receive_packet") /\ ret'.res = RADIO_OK )
          => /\ rx_trace'.deq = rx_trace.deq + 1
             /\ ret'.out.packet_id = rx_trace'.deq
       /\ g_radio'.rx_buffer_count = rx_trace'.enq - rx_trace'.deq]_vars

\* The 33rd arrival has been returned, from slot 0 again, while a later
\* arrival is still buffered behind it.
C8_Witness ==
    /\ ret.op = "radio_receive_packet"
    /\ ret.res = RADIO_OK
    /\ ret.out.packet_id = RX_BUFFER_SIZE + 1
    /\ g_radio.rx_buffer_tail = 1
    /\ g_radio.rx_buffer_count > 0

\* C9: the occupancy never exceeds 32, and with 32 packets buffered a
\* radio_receive_packet call, whether its simulate_packet_reception draws an
\* arrival or not, invokes no receive callback, leaves packets_received, the
\* 32 slots of rx_buffer and rx_buffer_head as they were and returns the
\* oldest packet: a drawn arrival is dropped.
C9_FullBufferDropsArrival ==
    [][/\ g_radio'.rx_buffer_count <= RX_BUFFER_SIZE
       /\ ( /\ g_radio.rx_buffer_count = 32
            /\ ret'.op \in {"radio_receive_packet", "rx_callback"}
            /\ <<g_radio, ret, frames, rx_trace>>'
                   # <<g_radio, ret, frames, rx_trace>> )
          => /\ ret'.op = "radio_receive_packet"
             /\ rx_trace'.cb = rx_trace.cb
             /\ rx_trace'.enq = rx_trace.enq
             /\ g_radio'.stats.packets_received = g_radio.stats.packets_received
             /\ g_radio'.rx_buffer = g_radio.rx_buffer
             /\ g_radio'.rx_buffer_head = g_radio.rx_buffer_head
             /\ g_radio'.rx_buffer_count = 31
             /\ ret'.res = RADIO_OK
             /\ ret'.out = g_radio.rx_buffer[g_radio.rx_buffer_tail]]_vars

\* A radio_receive_packet call made with 32 packets buffered has drawn an
\* arrival, dropped it and returned the oldest packet.
C9_Witness ==
    /\ ret.op = "radio_receive_packet"
    /\ ret.from.rx_buffer_count = RX_BUFFER_SIZE
    /\ ret.rx = "dropped"
    /\ ret.res = RADIO_OK
    /\ g_radio.rx_buffer_count = RX_BUFFER_SIZE - 1
    /\ g_radio.stats.packets_received = RX_BUFFER_SIZE


\* The step is a radio_get_network_info(&info) call that returns RADIO_OK and
\* is the first call after a successful radio_join_network.
InfoReadAfterJoin ==
    /\ ret.op = "radio_join_network"
    /\ ret.res = RADIO_OK
    /\ CallReturned("radio_get_network_info")
    /\ ret'.arg # NULL

\* C10: a successful radio_join_network(id, ...) leaves the radio connected
\* with network_id == id, hop_count in 1 .. 5, is_gateway false and the stored
\* uptime_seconds 0; the radio_get_network_info call that follows it returns
\* RADIO_OK and reports that network_id, hop_count and is_gateway, and as
\* uptime_seconds the whole seconds since g_radio.last_activity_time (the last
\* radio_init, radio_set_power_state or radio_send_packet), which is not
\* reset by the join.
C10_JoinThenNetworkInfo ==
    [][/\ ( CallReturned("radio_join_network") /\ ret'.res = RADIO_OK )
          => /\ g_radio'.connected_to_network
             /\ g_radio'.network_info.network_id = ret'.arg
             /\ g_radio'.network_info.hop_count \in 1 .. 5
             /\ ~g_radio'.network_info.is_gateway
             /\ g_radio'.network_info.uptime_seconds = 0
             /\ g_radio'.last_activity_time = g_radio.last_activity_time
       /\ InfoReadAfterJoin
          => /\ ret'.res = RADIO_OK
             /\ ret'.out.network_id = ret.arg
             /\ ret'.out.hop_count < 255
             /\ ret'.out.hop_count # 0
             /\ ~ret'.out.is_gateway
             /\ ret'.out.uptime_seconds =
                    (clock_ms - g_radio.last_activity_time) \div 1000]_vars

\* radio_get_network_info has reported, right after a join of network 1001
\* at 1400 ms, an uptime of one second.
C10_Witness ==
    /\ ret.op = "radio_get_network_info"
    /\ ret.res = RADIO_OK
    /\ ret.out.network_id = 1001
    /\ ret.out.hop_count = 4
    /\ ret.out.uptime_seconds = 1
    /\ clock_ms = 2 * TickMs
    /\ g_radio.last_activity_time = 0

\* C10 as stated: the uptime that radio_get_network_info reports after a
\* successful join counts from the join.
C10_AsStated ==
    [][InfoReadAfterJoin
       => /\ ret'.res = RADIO_OK
          /\ ret'.out.network_id = ret.arg
          /\ ret'.out.hop_count < 255
          /\ ret'.out.hop_count # 0
          /\ ~ret'.out.is_gateway
          /\ ret'.out.uptime_seconds = (clock_ms - ret.at) \div 1000]_vars

\* C11: radio_leave_network, called in any initialized state (connected or
\* not, in any of the six power states), returns RADIO_OK, clears
\* connected_to_network, sets hop_count to 255 and link_quality to 0 and
\* changes nothing else; called again right after, it changes nothing at all.
C11_LeaveResetsAssociation ==
    [][/\ ( CallReturned("radio_leave_network") /\ g_radio.initialized )
          => /\ ret'.res = RADIO_OK
             /\ ~g_radio'.connected_to_network
             /\ g_radio'.network_info.hop_count = 255
             /\ g_radio'.network_info.link_quality = 0
             /\ g_radio' = [g_radio EXCEPT
                               !.connected_to_network = FALSE,
                               !.network_info.hop_count = 255,
                               !.network_info.link_quality = 0]
       /\ ( /\ ret.op = "radio_leave_network"
            /\ ret.res = RADIO_OK
            /\ ret'.op = "radio_leave_network" )
          => g_radio' = g_radio]_vars

\* radio_leave_network has returned on a powered-off radio that had joined
\* network 1000 before: the radio was already disconnected by the power-off,
\* and the hop count of the join is now reset.
C11_Witness ==
    /\ ret.op = "radio_leave_network"
    /\ ret.res = RADIO_OK
    /\ ret.from.power_state = RADIO_POWER_OFF
    /\ g_radio.network_info.network_id = 1000
    /\ g_radio.network_info.hop_count = HOP_NOT_CONNECTED
    /\ g_radio.network_info.link_quality = 0
    /\ ~g_radio.connected_to_network

\* C12: radio_get_network_info, called with a non-NULL pointer on an
\* initialized radio that is not associated, returns
\* RADIO_ERROR_NOT_CONNECTED and changes no state; and the radio is not
\* associated after radio_init, after radio_leave_network and after
\* radio_set_power_state(RADIO_POWER_OFF), and becomes associated only by a
\* radio_join_network that returns RADIO_OK.
C12_InfoNeedsAssociation ==
    [][/\ ( /\ CallReturned("radio_get_network_info")
            /\ g_radio.initialized
            /\ ret'.arg # NULL
            /\ ~g_radio.connected_to_network )
          => /\ ret'.res = RADIO_ERROR_NOT_CONNECTED
             /\ g_radio' = g_radio
       /\ ( /\ ret'.res = RADIO_OK
            /\ \/ CallReturned("radio_init")
               \/ CallReturned("radio_leave_network")
               \/ CallReturned("radio_set_power_state")
                     /\ ret'.arg = RADIO_POWER_OFF )
          => ~g_radio'.connected_to_network
       /\ ( ~g_radio.connected_to_network /\ g_radio'.connected_to_network )
          => ( ret'.op = "radio_join_network" /\ ret'.res = RADIO_OK )]_vars

\* radio_get_network_info has failed on a radio that had joined network 1001
\* and was then powered off and on again (the hop count of the join is still
\* stored, so no radio_leave_network was called).
C12_Witness ==
    /\ ret.op = "radio_get_network_info"
    /\ ret.arg # NULL
    /\ ret.res = RADIO_ERROR_NOT_CONNECTED
    /\ ret.from.power_state = RADIO_POWER_IDLE
    /\ g_radio.network_info.network_id = 1001
    /\ g_radio.network_info.hop_count # HOP_NOT_CONNECTED
    /\ g_radio.initialized

(***************************************************************************)
(* The airtime model: an application that picks a data rate and a          *)
(* modulation (one value past the last enumerator included: the default    *)
(* branches) and calls the pure function radio_calculate_airtime with      *)
(* every payload size of its uint8_t parameter in turn, 0 to 255.  The     *)
(* call needs no initialized radio and touches no radio state.             *)
(***************************************************************************)
DataRateArgs == RADIO_DATA_RATE_1K .. (RADIO_DATA_RATE_250K + 1)
ModulationArgs == RADIO_MODULATION_FSK .. (RADIO_MODULATION_OOK + 1)

\* A call of radio_calculate_airtime: ret.res is the uint32_t it returns.
AirtimeCall(payload_size, data_rate, modulation) ==
    /\ ret' = Returned("radio_calculate_airtime",
                       <<payload_size, data_rate, modulation>>,
                       radio_calculate_airtime(payload_size, data_rate,
                                               modulation),
                       NoOutput, "none")
    /\ UNCHANGED <<g_radio, clock_ms, frames, rx_trace, sensor_vars>>

NextAir ==
    \/ /\ ret.op = "none"
       /\ \E dr \in DataRateArgs, m \in ModulationArgs : AirtimeCall(0, dr, m)
    \/ /\ ret.op = "radio_calculate_airtime"
       /\ ret.arg[1] < UINT8_MAX
       /\ AirtimeCall(ret.arg[1] + 1, ret.arg[2], ret.arg[3])

SpecAir == Init /\ [][NextAir]_vars

\* C13: for every data rate and modulation and every payload_size p in
\* 0 .. 254, radio_calculate_airtime(p, rate, mod), computed in uint32_t
\* arithmetic, is at most radio_calculate_airtime(p + 1, rate, mod).
C13_AsStated ==
    ( /\ ret.op = "radio_calculate_airtime"
      /\ ret.arg[1] <= 254
      /\ ret.arg[2] \in RADIO_DATA_RATE_1K .. RADIO_DATA_RATE_250K
      /\ ret.arg[3] \in RADIO_MODULATION_FSK .. RADIO_MODULATION_OOK )
    => ret.res <= radio_calculate_airtime(ret.arg[1] + 1, ret.arg[2],
                                          ret.arg[3])

\* C14: for every payload_size, data rate and modulation of the enums,
\* radio_calculate_airtime returns the microseconds of B bits at the bit rate
\* (1, 10, 50, 100 or 250 kbit/s), truncated, where B is the bit count
\* (payload_size + 16) * 8 scaled by the modulation factor and truncated to
\* whole bits (FSK 1, GFSK 9/10, LoRa 3/2, OOK 2), the product B * 1000000
\* being taken modulo 2^32 (it exceeds 2^32 = 4294 * 10^6 + 967296 only for
\* B > 4294).  For payload 32 at 50k with GFSK, B is 345 and the result is
\* 6900 microseconds.
C14_AirtimeFormula ==
    ( /\ ret.op = "radio_calculate_airtime"
      /\ ret.arg[2] \in RADIO_DATA_RATE_1K .. RADIO_DATA_RATE_250K
      /\ ret.arg[3] \in RADIO_MODULATION_FSK .. RADIO_MODULATION_OOK )
    => LET bits == (ret.arg[1] + 16) * 8
           kbps == CASE ret.arg[2] = RADIO_DATA_RATE_1K -> 1
                     [] ret.arg[2] = RADIO_DATA_RATE_10K -> 10
                     [] ret.arg[2] = RADIO_DATA_RATE_50K -> 50
                     [] ret.arg[2] = RADIO_DATA_RATE_100K -> 100
                     [] ret.arg[2] = RADIO_DATA_RATE_250K -> 250
           us == ret.res
       IN  /\ \E B \in 0 .. 2 * bits :
                /\ CASE ret.arg[3] = RADIO_MODULATION_FSK -> B = bits
                     [] ret.arg[3] = RADIO_MODULATION_GFSK ->
                            10 * B <= 9 * bits /\ 9 * bits < 10 * (B + 1)
                     [] ret.arg[3] = RADIO_MODULATION_LORA ->
                            2 * B <= 3 * bits /\ 3 * bits < 2 * (B + 1)
                     [] ret.arg[3] = RADIO_MODULATION_OOK -> B = 2 * bits
                /\ IF B <= 4294
                   THEN us * kbps <= B * 1000 /\ B * 1000 < (us + 1) * kbps
                   ELSE LET wrapped == (B - 4294) * 1000000 - 967296
                        IN  /\ us * kbps * 1000 <= wrapped
                            /\ wrapped < (us + 1) * kbps * 1000
           /\ ret.arg = <<32, RADIO_DATA_RATE_50K, RADIO_MODULATION_GFSK>>
                 => us = 6900

\* The airtime of the scenario's packet (payload 32, 50 kbit/s, GFSK) has
\* been computed.
C14_Witness ==
    /\ ret.op = "radio_calculate_airtime"
    /\ ret.arg = <<32, RADIO_DATA_RATE_50K, RADIO_MODULATION_GFSK>>
    /\ ret.res = 6900

\* C14 as stated: for payload 32 at 50k with GFSK the result is 6912.
C14_AsStated ==
    ( /\ ret.op = "radio_calculate_airtime"
      /\ ret.arg = <<32, RADIO_DATA_RATE_50K, RADIO_MODULATION_GFSK>> )
    => ret.res = 6912

(***************************************************************************)
(* Telemetry: an application that sends and receives a few packets (no     *)
(* receive callback registered), changes the power state, and reads and    *)
(* resets the statistics.                                                  *)
(***************************************************************************)
\* The draws of a simulate_packet_reception call whose callback, if there
\* were one, would return without calling the driver.
PlainDraws == [arrive : RandDraws, fill : {57}, reenter : {FALSE}]

NextStats ==
    \/ radio_init(<<ExampleConfig>>, 57, 57)
    \/ \E p \in {RADIO_POWER_OFF, RADIO_POWER_SLEEP, RADIO_POWER_RX} :
           radio_set_power_state(p)
    \/ \E r \in RandDraws :
           radio_send_packet(<<[ZeroPacket EXCEPT !.payload_size = 32]>>, r)
    \/ \E d1 \in PlainDraws :
           radio_receive_packet("valid", 0, d1, NoDraws,
                                MaxArrivalsRx, MaxDepthRx)
    \/ \E o \in PtrArgs, r \in RandDraws : radio_get_statistics(o, r, r)
    \/ \E r \in RandDraws : radio_reset_statistics(r)

SpecStats == Init /\ [][NextStats]_vars

\* C15: the radio_get_statistics call (with a non-NULL pointer) that follows
\* a successful radio_reset_statistics returns RADIO_OK and a snapshot whose
\* packets_sent, packets_received, packets_lost, retries_attempted,
\* crc_errors, timeouts and total_airtime_ms are all zero.
C15_ResetThenGetIsZero ==
    [][( /\ ret.op = "radio_reset_statistics"
         /\ ret.res = RADIO_OK
         /\ CallReturned("radio_get_statistics")
         /\ ret'.arg # NULL )
       => /\ ret'.res = RADIO_OK
          /\ ret'.out.packets_sent = 0
          /\ ret'.out.packets_received = 0
          /\ ret'.out.packets_lost = 0
          /\ ret'.out.retries_attempted = 0
          /\ ret'.out.crc_errors = 0
          /\ ret'.out.timeouts = 0
          /\ ret'.out.total_airtime_ms = 0]_vars

\* radio_get_statistics has returned all-zero counters on a radio that has
\* received packets since its radio_init.
C15_Witness ==
    /\ ret.op = "radio_get_statistics"
    /\ ret.res = RADIO_OK
    /\ ret.out.packets_sent = 0
    /\ ret.out.packets_received = 0
    /\ ret.out.total_airtime_ms = 0
    /\ rx_trace.enq > 0
    /\ g_radio.power_state = RADIO_POWER_IDLE

\* C16: on an initialized radio in power state cur, radio_set_power_state
\* with a target among the six states returns RADIO_OK and makes the power
\* state equal to the target, for every pair (cur, target) except cur Off
\* with target Rx or Tx: then it returns RADIO_ERROR_CONFIG and changes no
\* state (the power state stays Off).
C16_PowerTransitions ==
    [][( /\ CallReturned("radio_set_power_state")
         /\ g_radio.initialized
         /\ ret'.arg \in 0 .. 5 )
       => IF /\ g_radio.power_state = RADIO_POWER_OFF
             /\ ret'.arg \in {RADIO_POWER_RX, RADIO_POWER_TX}
          THEN /\ ret'.res = RADIO_ERROR_CONFIG
               /\ g_radio'.power_state = RADIO_POWER_OFF
               /\ g_radio' = g_radio
          ELSE /\ ret'.res = RADIO_OK
               /\ g_radio'.power_state = ret'.arg]_vars

\* The request to go from Off to Tx has been refused.
C16_Witness ==
    /\ ret.op = "radio_set_power_state"
    /\ ret.arg = RADIO_POWER_TX
    /\ ret.from.initialized
    /\ ret.from.power_state = RADIO_POWER_OFF
    /\ ret.res = RADIO_ERROR_CONFIG
    /\ g_radio.power_state = RADIO_POWER_OFF

\* C17: radio_set_power_state(RADIO_POWER_OFF) returns RADIO_OK from every
\* power state of an initialized radio and leaves it Off and not connected;
\* a radio that is not connected becomes connected only by a
\* radio_join_network that returns RADIO_OK (raising the power state again
\* does not reconnect it), and a powered-off radio is never connected.
C17_OffClearsAssociation ==
    [][/\ ( /\ CallReturned("radio_set_power_state")
            /\ g_radio.initialized
            /\ ret'.arg = RADIO_POWER_OFF )
          => /\ ret'.res = RADIO_OK
             /\ g_radio'.power_state = RADIO_POWER_OFF
             /\ ~g_radio'.connected_to_network
       /\ ( ~g_radio.connected_to_network /\ g_radio'.connected_to_network )
          => ( ret'.op = "radio_join_network" /\ ret'.res = RADIO_OK )
       /\ g_radio'.power_state = RADIO_POWER_OFF
          => ~g_radio'.connected_to_network]_vars

\* A radio that had joined network 1000 (its hop count is still stored) and
\* was powered off has been raised to Idle again and is not connected.
C17_Witness ==
    /\ ret.op = "radio_set_power_state"
    /\ ret.arg = RADIO_POWER_IDLE
    /\ ret.res = RADIO_OK
    /\ ret.from.power_state = RADIO_POWER_OFF
    /\ g_radio.network_info.network_id = 1000
    /\ g_radio.network_info.hop_count # HOP_NOT_CONNECTED
    /\ ~g_radio.connected_to_network

\* C18: on an initialized radio, radio_configure with a non-NULL
\* configuration returns RADIO_OK and stores the configuration (changing
\* nothing else) if the configuration is valid (channel < 125,
\* max_retries <= 5, tx_timeout_ms > 0) and the power state is Idle; in
\* every other case it returns RADIO_ERROR_CONFIG and changes no state.  The
\* stored configuration changes only in a successful radio_configure or
\* radio_init.
C18_ConfigureOnlyInIdle ==
    [][/\ ( /\ CallReturned("radio_configure")
            /\ g_radio.initialized
            /\ ret'.arg # <<>> )
          => IF /\ ret'.arg[1].channel < 125
                /\ ret'.arg[1].max_retries <= 5
                /\ ret'.arg[1].tx_timeout_ms > 0
                /\ g_radio.power_state = RADIO_POWER_IDLE
             THEN /\ ret'.res = RADIO_OK
                  /\ g_radio' = [g_radio EXCEPT !.config = ret'.arg[1]]
             ELSE /\ ret'.res = RADIO_ERROR_CONFIG
                  /\ g_radio' = g_radio
       /\ g_radio'.config # g_radio.config
          => /\ ret'.op \in {"radio_configure", "radio_init"}
             /\ ret'.res = RADIO_OK]_vars

\* A valid configuration has been refused in RADIO_POWER_RX; the radio keeps
\* the configuration of its radio_init.
C18_Witness ==
    /\ ret.op = "radio_configure"
    /\ ret.arg = <<LimitConfig>>
    /\ ret.res = RADIO_ERROR_CONFIG
    /\ ret.from.initialized
    /\ ret.from.power_state = RADIO_POWER_RX
    /\ g_radio.config = ExampleConfig

\* C19: radio_get_tx_status, called on an initialized radio with a tx_id that
\* no radio_send_packet_async has returned since radio_init (the ids returned
\* so far are 1 .. next_tx_id - 1), fails.
C19_AsStated ==
    [][( /\ CallReturned("radio_get_tx_status")
         /\ g_radio.initialized
         /\ ret'.arg \notin 1 .. (g_radio.next_tx_id - 1) )
       => ret'.res # RADIO_OK]_vars

(***************************************************************************)
(* Transaction ids, late in a session: the radio was initialized and has   *)
(* since accepted IdsIssued asynchronous sends, three short of the 65536   *)
(* values of the uint16_t next_tx_id; the application goes on sending,     *)
(* with the radio powered on and off.                                      *)
(***************************************************************************)
IdsIssued == UINT16_MOD - 3
MaxSentIds == 65538

\* The packet that application sends.
IdsPacket == <<[ZeroPacket EXCEPT !.payload_size = 32]>>

\* The state after radio_init(&ExampleConfig) and IdsIssued successful
\* radio_send_packet_async(&packet, &tx_id) calls.
InitIds ==
    /\ clock_ms = 0
    /\ g_radio = [InitializedState(ExampleConfig, 57, 57) EXCEPT
                     !.next_tx_id = IdsIssued + 1,
                     !.stats.packets_sent = IdsIssued]
    /\ ret = [op |-> "radio_send_packet_async",
              arg |-> <<IdsPacket, "valid">>,
              res |-> RADIO_OK, out |-> IdsIssued, rx |-> "none",
              from |-> [power_state |-> RADIO_POWER_IDLE,
                        initialized |-> TRUE, rx_buffer_count |-> 0],
              at |-> 0]
    /\ frames = <<>>
    /\ rx_trace = ZeroTrace
    /\ driver_state = ZeroDriverState
    /\ sensor_trace = ZeroSensorTrace

NextIds ==
    \/ \E p \in PacketArgs, o \in PtrArgs :
           radio_send_packet_async_upto(p, o, MaxSentIds, UINT16_MOD - 1)
    \/ \E p \in {RADIO_POWER_OFF, RADIO_POWER_IDLE} : radio_set_power_state(p)
    \/ \E t \in {0, 1, UINT16_MOD - 1} : radio_get_tx_status(t, "valid")

SpecIds == InitIds /\ [][NextIds]_vars

\* C20: of two successful radio_send_packet_async calls made one right after
\* the other, the second returns the id of the first plus one, which is
\* strictly greater; the first successful call after radio_init returns 1; a
\* rejected call leaves next_tx_id alone; and each successful call increments
\* packets_sent by exactly 1.
C20_AsStated ==
    [][/\ ( /\ CallReturned("radio_send_packet_async")
            /\ ret'.res = RADIO_OK )
          => /\ g_radio'.stats.packets_sent = g_radio.stats.packets_sent + 1
             /\ ( ret.op = "radio_init" /\ ret.res = RADIO_OK )
                   => ret'.out = 1
             /\ ( ret.op = "radio_send_packet_async" /\ ret.res = RADIO_OK )
                   => ( ret'.out = ret.out + 1 /\ ret'.out > ret.out )
       /\ ( /\ CallReturned("radio_send_packet_async")
            /\ ret'.res # RADIO_OK )
          => g_radio'.next_tx_id = g_radio.next_tx_id]_vars

(***************************************************************************)
(* The power model: an application that calls                              *)
(* radio_estimate_power_consumption, which reads no radio state, for every *)
(* power state and for durations around the minute, the hour and the       *)
(* values at which the 32-bit product current_ma * 1000 * duration_ms      *)
(* passes 2^32.                                                            *)
(***************************************************************************)
\* radio_power_state_t arguments, one above the enum included.
PowerStateArgs == RADIO_POWER_OFF .. (RADIO_POWER_TX + 1)

\* Durations swept in steps of DurationStepMs, MaxDurationSteps of them.
DurationStepMs == 3579
MaxDurationSteps == 30

\* The swept durations, the durations around one micro-amp-hour of each
\* current, the last duration before and the first after the product wraps
\* for each current, and the largest duration TLC can hold.
DurationArgs ==
    {k * DurationStepMs : k \in 0 .. MaxDurationSteps}
        \cup {1, 3599, 3600, 71999, 72000, 85899, 85900, 214748, 214749,
              429496, 429497, 858993, 858994, 4294967, 4294968, 2147483647}

PowerCall(power_state, duration_ms) ==
    /\ ret' = Returned("radio_estimate_power_consumption",
                       <<power_state, duration_ms>>,
                       radio_estimate_power_consumption(power_state,
                                                        duration_ms),
                       NoOutput, "none")
    /\ UNCHANGED <<g_radio, clock_ms, frames, rx_trace, sensor_vars>>

NextPower ==
    \E ps \in PowerStateArgs, d \in DurationArgs : PowerCall(ps, d)

SpecPower == Init /\ [][NextPower]_vars

\* C23: radio_estimate_power_consumption(state, duration_ms) equals
\* floor(current_mA(state) * duration_ms / 3600), with current_mA = 0, 1, 5,
\* 10, 20, 50 for Off, Sleep, Standby, Idle, Rx, Tx, for every duration_ms
\* (the quotient is computed as c * (d div 3600) + (c * (d mod 3600)) div 3600).
C23_AsStated ==
    ( /\ ret.op = "radio_estimate_power_consumption"
      /\ ret.arg[1] \in RADIO_POWER_OFF .. RADIO_POWER_TX )
    => LET current_mA == <<0, 1, 5, 10, 20, 50>>[ret.arg[1] + 1]
           d == ret.arg[2]
       IN  ret.res = current_mA * (d \div 3600)
                         + (current_mA * (d % 3600)) \div 3600

(***************************************************************************)
(* Telemetry over time: an application that sends and receives, changes    *)
(* the power state, reads and resets the statistics and initializes the    *)
(* radio again, while minutes pass between its calls (the power estimate   *)
(* of radio_get_statistics is at least 1 only after 72 s in Tx).           *)
(***************************************************************************)
LongTickMs == 72000
MaxLongClockMs == 216000

LongTick ==
    /\ clock_ms + LongTickMs <= MaxLongClockMs
    /\ clock_ms' = clock_ms + LongTickMs
    /\ UNCHANGED <<g_radio, ret, frames, rx_trace, sensor_vars>>

NextTelemetry ==
    \/ radio_init(<<ExampleConfig>>, 57, 57)
    \/ \E p \in {RADIO_POWER_OFF, RADIO_POWER_IDLE, RADIO_POWER_TX} :
           radio_set_power_state(p)
    \/ \E r \in RandDraws :
           radio_send_packet(<<[ZeroPacket EXCEPT !.payload_size = 32]>>, r)
    \/ \E d1 \in PlainDraws :
           radio_receive_packet("valid", 0, d1, NoDraws, MaxArrivals, MaxDepth)
    \/ \E o \in PtrArgs : radio_get_statistics(o, 3, 57)
    \/ radio_reset_statistics(57)
    \/ LongTick

SpecTelemetry == Init /\ [][NextTelemetry]_vars

\* The cumulative counters of a radio_stats_t, as one tuple.
Cumulative(s) ==
    <<s.packets_sent, s.packets_received, s.packets_lost,
      s.retries_attempted, s.crc_errors, s.timeouts, s.total_airtime_ms>>

\* No component of tuple a is larger than the same component of tuple b.
NoneDecreased(a, b) == \A i \in DOMAIN a : a[i] <= b[i]

\* C21: across every step other than the return of a successful
\* radio_reset_statistics or of a successful radio_init, none of packets_sent,
\* packets_received, packets_lost, retries_attempted, crc_errors, timeouts
\* and total_airtime_ms decreases; a successful radio_init zeroes them all,
\* like radio_reset_statistics.  (last_rssi, channel_utilization and
\* power_consumption_mw are rewritten by radio_get_statistics and may go
\* down.)
C21_CountersMonotonic ==
    [][\/ CallReturned("radio_reset_statistics") /\ ret'.res = RADIO_OK
       \/ /\ CallReturned("radio_init")
          /\ ret'.res = RADIO_OK
          /\ Cumulative(g_radio'.stats) = Cumulative(ZeroStats)
       \/ NoneDecreased(Cumulative(g_radio.stats),
                        Cumulative(g_radio'.stats))]_vars

\* The statistics have been read in Tx, more than two minutes after the last
\* activity, on a radio that has sent two packets (one of them lost) and
\* received one: the counters have grown, the power estimate, which was 1
\* after 72 s, is 0.
C21_Witness ==
    /\ ret.op = "radio_get_statistics"
    /\ ret.res = RADIO_OK
    /\ g_radio.stats.packets_sent = 2
    /\ g_radio.stats.packets_lost = 1
    /\ g_radio.stats.packets_received = 1
    /\ g_radio.stats.total_airtime_ms = 12
    /\ g_radio.power_state = RADIO_POWER_TX
    /\ clock_ms - g_radio.last_activity_time = 2 * LongTickMs
    /\ g_radio.stats.power_consumption_mw = 0

\* C21 as stated: across every step other than the return of a successful
\* radio_reset_statistics, none of the seven cumulative counters and not the
\* power-consumption estimate decreases.
C21_AsStated ==
    [][\/ CallReturned("radio_reset_statistics") /\ ret'.res = RADIO_OK
       \/ /\ NoneDecreased(Cumulative(g_radio.stats),
                           Cumulative(g_radio'.stats))
          /\ g_radio'.stats.power_consumption_mw
                 >= g_radio.stats.power_consumption_mw]_vars

\* C22: a successful radio_get_statistics writes a snapshot that is the
\* stored statistics after the call and whose packets_sent, packets_received,
\* packets_lost, retries_attempted, crc_errors, timeouts and total_airtime_ms
\* are the values stored before the call; the call, successful or not,
\* changes nothing in g_radio but stats.last_rssi, stats.channel_utilization
\* and stats.power_consumption_mw.
C22_SnapshotKeepsCounters ==
    [][CallReturned("radio_get_statistics")
       => /\ ret'.res = RADIO_OK
             => /\ ret'.out = g_radio'.stats
                /\ Cumulative(ret'.out) = Cumulative(g_radio.stats)
          /\ Cumulative(g_radio'.stats) = Cumulative(g_radio.stats)
          /\ g_radio' =
                 [g_radio EXCEPT
                     !.stats.last_rssi = g_radio'.stats.last_rssi,
                     !.stats.channel_utilization =
                         g_radio'.stats.channel_utilization,
                     !.stats.power_consumption_mw =
                         g_radio'.stats.power_consumption_mw]]_vars

\* A snapshot taken in Tx, 72 s after the last activity, of a radio that has
\* sent two packets and received one: the counters are reported as stored,
\* the power estimate has become 1.
C22_Witness ==
    /\ ret.op = "radio_get_statistics"
    /\ ret.res = RADIO_OK
    /\ ret.out.packets_sent = 2
    /\ ret.out.packets_received = 1
    /\ ret.out.total_airtime_ms = 12
    /\ ret.out.power_consumption_mw = 1
    /\ ret.out.last_rssi = simulate_rssi(3)
    /\ ret.from.power_state = RADIO_POWER_TX

\* C24: radio_deinit on an initialized radio returns RADIO_OK, forces the
\* power state to RADIO_POWER_OFF and leaves all of g_radio at the cleared
\* default: configuration, statistics, receive buffer and its indices,
\* network_info, connected_to_network, next_tx_id and both callbacks with
\* their user data.
C24_AsStated ==
    [][( CallReturned("radio_deinit") /\ g_radio.initialized )
       => /\ ret'.res = RADIO_OK
          /\ g_radio'.power_state = RADIO_POWER_OFF
          /\ g_radio' = ZeroState]_vars

\* The radio listens: simulate_packet_reception goes on only in these states.
Listening(g) == g.power_state \in {RADIO_POWER_RX, RADIO_POWER_IDLE}

\* C25: in Off, Sleep, Standby and Tx no operation enqueues an arrival: no
\* step taken in one of these states advances rx_buffer_head, increases
\* rx_buffer_count or increases packets_received.  (A radio_receive_packet
\* may still dequeue there, which lowers the count, and a successful
\* radio_init resets head, count and packets_received to 0.)
C25_EnqueueOnlyWhenListening ==
    [][~Listening(g_radio)
       => \/ /\ CallReturned("radio_init")
             /\ ret'.res = RADIO_OK
             /\ g_radio'.rx_buffer_head = 0
             /\ g_radio'.rx_buffer_count = 0
             /\ g_radio'.stats.packets_received = 0
          \/ /\ rx_trace'.enq = rx_trace.enq
             /\ g_radio'.rx_buffer_head = g_radio.rx_buffer_head
             /\ g_radio'.rx_buffer_count <= g_radio.rx_buffer_count
             /\ g_radio'.stats.packets_received
                    <= g_radio.stats.packets_received]_vars

\* radio_receive_packet, called in Standby with a timeout above 100 ms (two
\* reception attempts) on a radio that has received a packet before, has
\* returned RADIO_ERROR_TIMEOUT and the head is where it was.
C25_Witness ==
    /\ ret.op = "radio_receive_packet"
    /\ ret.from.power_state = RADIO_POWER_STANDBY
    /\ ret.arg[2] > 100
    /\ ret.res = RADIO_ERROR_TIMEOUT
    /\ rx_trace.enq = 1
    /\ g_radio.rx_buffer_head = 1
    /\ g_radio.stats.packets_received = 1

\* C25 as stated: no step taken in Off, Sleep, Standby or Tx changes
\* rx_buffer_head or rx_buffer_count or increments packets_received.
C25_AsStated ==
    [][~Listening(g_radio)
       => /\ g_radio'.rx_buffer_head = g_radio.rx_buffer_head
          /\ g_radio'.rx_buffer_count = g_radio.rx_buffer_count
          /\ g_radio'.stats.packets_received
                 <= g_radio.stats.packets_received]_vars

\* The step enqueues an arrival (the enqueue count is reset only by radio_init).
Enqueues == rx_trace'.enq = rx_trace.enq + 1

\* C26: every enqueue increments packets_received by exactly 1.  If a
\* receive callback is registered at that moment, it is invoked exactly once
\* in the same step, i.e. before the enclosing radio_receive_packet returns,
\* with the packet just written at the head slot and with the user data
\* stored by the latest radio_set_rx_callback; a callback that calls the
\* driver again is entered with the enclosing call still pending.  If no
\* callback is registered, or the latest radio_set_rx_callback set it to
\* NULL, nothing is invoked; and no step without an enqueue invokes it.
C26_EnqueueCountsAndNotifies ==
    [][/\ Enqueues
          => /\ g_radio'.stats.packets_received
                    = g_radio.stats.packets_received + 1
             /\ IF g_radio.rx_callback # NULL
                THEN /\ rx_trace'.cb = rx_trace.cb + 1
                     /\ rx_trace'.cb_packet
                            = g_radio'.rx_buffer[g_radio.rx_buffer_head]
                     /\ rx_trace'.cb_packet.packet_id = rx_trace'.enq
                     /\ rx_trace'.cb_user_data = g_radio.rx_user_data
                     /\ ret'.op \in {"radio_receive_packet", "rx_callback"}
                     /\ ret'.op = "rx_callback"
                            => /\ Len(frames') > 0
                               /\ ret'.arg = g_radio.rx_user_data
                               /\ ret'.out = rx_trace'.cb_packet
                ELSE /\ rx_trace'.cb = rx_trace.cb
                     /\ ret'.op # "rx_callback"
       /\ ( /\ Enqueues
            /\ ret.op = "radio_set_rx_callback"
            /\ ret.res = RADIO_OK )
          => IF ret.arg[1] = NULL
             THEN rx_trace'.cb = rx_trace.cb
             ELSE rx_trace'.cb_user_data = ret.arg[2]
       /\ ~Enqueues
          => \/ rx_trace'.cb = rx_trace.cb
             \/ CallReturned("radio_init") /\ rx_trace' = ZeroTrace]_vars

\* Two packets have been enqueued and counted; the callback was invoked for
\* the first (with the registered context) and, having been set to NULL
\* since, not for the second.
C26_Witness ==
    /\ ret.op = "radio_receive_packet"
    /\ ret.res = RADIO_OK
    /\ ret.rx = "enqueued"
    /\ rx_trace.enq = 2
    /\ rx_trace.cb = 1
    /\ rx_trace.cb_user_data = "ctx"
    /\ rx_trace.cb_packet.packet_id = 1
    /\ g_radio.rx_callback = NULL
    /\ g_radio.stats.packets_received = 2

\* C27: radio_scan_networks, whether it succeeds or fails, leaves
\* connected_to_network and the stored network_info (network_id,
\* connected_devices, signal_strength, link_quality, uptime_seconds,
\* is_gateway, hop_count) as they were; it changes nothing in g_radio.
C27_ScanKeepsAssociation ==
    [][CallReturned("radio_scan_networks")
       => /\ g_radio'.connected_to_network = g_radio.connected_to_network
          /\ g_radio'.network_info = g_radio.network_info
          /\ g_radio' = g_radio]_vars

\* A scan has found three networks (the first a gateway with id 1000) while
\* the radio is associated with network 1001.
C27_Witness ==
    /\ ret.op = "radio_scan_networks"
    /\ ret.res = RADIO_OK
    /\ Len(ret.out) = 3
    /\ ret.out[1].is_gateway
    /\ ret.out[1].network_id = 1000
    /\ g_radio.connected_to_network
    /\ g_radio.network_info.network_id = 1001
    /\ ~g_radio.network_info.is_gateway

(***************************************************************************)
(* Waiting for a packet: an application that calls radio_receive_packet    *)
(* with timeouts from 0 to two ticks of the clock, in Idle and in Sleep,   *)
(* while time passes between its calls.                                    *)
(***************************************************************************)
WaitArgs == TimeoutArgs \cup {1, 2 * TickMs}

NextWait ==
    \/ radio_init(<<ExampleConfig>>, 57, 57)
    \/ \E p \in {RADIO_POWER_SLEEP, RADIO_POWER_IDLE} : radio_set_power_state(p)
    \/ \E t \in WaitArgs, d1 \in PlainDraws :
           \E d2 \in (IF t > 100 THEN PlainDraws ELSE {NoDraws}) :
               radio_receive_packet("valid", t, d1, d2,
                                    MaxArrivalsRx, MaxDepthRx)
    \/ Tick

SpecWait == Init /\ [][NextWait]_vars

\* C28: radio_receive_packet called with timeout_ms > 0 on an empty buffer
\* (radio initialized and powered) returns RADIO_OK with a packet that
\* arrived during the call, or RADIO_ERROR_TIMEOUT, never
\* RADIO_ERROR_BUFFER_EMPTY; and it returns RADIO_ERROR_TIMEOUT only if no
\* packet arrives before its deadline: the next arrival after a call that
\* timed out is at or after the time of that call plus its timeout_ms.
C28_AsStated ==
    [][/\ ( /\ CallReturned("radio_receive_packet")
            /\ ret'.arg[2] > 0
            /\ ret'.from.initialized
            /\ ret'.from.power_state # RADIO_POWER_OFF
            /\ ret'.from.rx_buffer_count = 0 )
          => /\ ret'.res \in {RADIO_OK, RADIO_ERROR_TIMEOUT}
             /\ ret'.res = RADIO_OK => ret'.rx = "enqueued"
             /\ ret'.res = RADIO_ERROR_TIMEOUT => ret'.rx = "none"
       /\ ( /\ ret.op = "radio_receive_packet"
            /\ ret.res = RADIO_ERROR_TIMEOUT
            /\ Enqueues )
          => clock_ms >= ret.at + ret.arg[2]]_vars

(***************************************************************************)
(* Power failure: an application that switches the radio off and on and    *)
(* calls the functions that need power (reception, scan, join, the two     *)
(* measurements) in both states.  It passes NULL as well as valid output   *)
(* pointers to the functions whose return record keeps the pointer; it     *)
(* calls radio_scan_networks and radio_join_network with valid pointers.   *)
(***************************************************************************)
NextOff ==
    \/ radio_init(<<ExampleConfig>>, 57, 57)
    \/ \E p \in {RADIO_POWER_OFF, RADIO_POWER_IDLE} : radio_set_power_state(p)
    \/ \E o \in PtrArgs, t \in TimeoutArgs, d1 \in PlainDraws :
           radio_receive_packet(o, t, d1, d1, MaxArrivals, MaxDepth)
    \/ \E m \in {0, 3}, rn \in RandDraws :
           radio_scan_networks("valid", m, "valid", rn, 57)
    \/ \E id \in NetworkIds, rf \in RandDraws :
           radio_join_network(id, "valid", rf, 57)
    \/ \E o \in PtrArgs, r \in RandDraws : radio_measure_rssi(o, r)
    \/ \E o \in PtrArgs, r \in RandDraws : radio_get_channel_utilization(o, r)

SpecOff == Init /\ [][NextOff]_vars

\* The functions that need power, other than the two send functions.
PoweredOps ==
    {"radio_receive_packet", "radio_scan_networks", "radio_join_network",
     "radio_measure_rssi", "radio_get_channel_utilization"}

\* The output pointer kept in the record of a returned call was NULL.
NullPointer(r) ==
    \/ r.op = "radio_receive_packet" /\ r.arg[1] = NULL
    \/ r.op \in {"radio_measure_rssi", "radio_get_channel_utilization"}
          /\ r.arg = NULL

\* C29: when the radio is initialized and powered Off, radio_receive_packet,
\* radio_scan_networks, radio_join_network, radio_measure_rssi and
\* radio_get_channel_utilization, called with non-NULL pointers, each fail
\* with RADIO_ERROR_POWER_FAILURE; they change nothing in g_radio (buffer,
\* statistics, association and power state included), also when a pointer is
\* NULL and the error is RADIO_ERROR_INVALID_PARAM.
C29_OffFailsWithPowerFailure ==
    [][\A op \in PoweredOps :
          ( /\ CallReturned(op)
            /\ g_radio.initialized
            /\ g_radio.power_state = RADIO_POWER_OFF )
          => /\ ret'.res = IF NullPointer(ret') THEN RADIO_ERROR_INVALID_PARAM
                           ELSE RADIO_ERROR_POWER_FAILURE
             /\ g_radio' = g_radio
             /\ rx_trace' = rx_trace
             /\ g_radio'.power_state = RADIO_POWER_OFF]_vars

\* radio_join_network has failed with RADIO_ERROR_POWER_FAILURE on a radio
\* that was switched off after it had joined network 1001 and received a
\* packet: the stored network_info and the statistics are still there.
C29_Witness ==
    /\ ret.op = "radio_join_network"
    /\ ret.res = RADIO_ERROR_POWER_FAILURE
    /\ ret.from.initialized
    /\ ret.from.power_state = RADIO_POWER_OFF
    /\ g_radio.power_state = RADIO_POWER_OFF
    /\ g_radio.network_info.network_id = 1001
    /\ ret.arg = 1000
    /\ g_radio.stats.packets_received = 1
    /\ g_radio.rx_buffer_head = 1

\* C30: in every reachable state rx_buffer_count is between 0 and 32 and is
\* congruent to rx_buffer_head - rx_buffer_tail modulo 32: it equals
\* (head - tail) mod 32 for every occupancy from 0 to 31, and the full
\* buffer of 32 packets has head = tail like the empty one.
C30_CountMatchesIndices ==
    /\ g_radio.rx_buffer_count \in 0 .. RX_BUFFER_SIZE
    /\ g_radio.rx_buffer_head \in 0 .. RX_BUFFER_SIZE - 1
    /\ g_radio.rx_buffer_tail \in 0 .. RX_BUFFER_SIZE - 1
    /\ g_radio.rx_buffer_count % 32
           = (g_radio.rx_buffer_head - g_radio.rx_buffer_tail) % 32
    /\ g_radio.rx_buffer_count = RX_BUFFER_SIZE
           => g_radio.rx_buffer_head = g_radio.rx_buffer_tail

\* The buffer is full and the head has wrapped around to the tail: 32
\* packets, head and tail both 1.
C30_Witness ==
    /\ g_radio.rx_buffer_count = RX_BUFFER_SIZE
    /\ g_radio.rx_buffer_head = 1
    /\ g_radio.rx_buffer_tail = 1
    /\ rx_trace.enq = RX_BUFFER_SIZE + 1

\* C30 as stated: rx_buffer_count equals (head - tail) mod 32 in every
\* reachable state, the full buffer of 32 packets included.
C30_AsStated ==
    g_radio.rx_buffer_count
        = (g_radio.rx_buffer_head - g_radio.rx_buffer_tail) % 32

\* C31: the arrival path (simulate_packet_reception, entered only from
\* radio_receive_packet) and the calls of the application, those made from
\* inside the receive callback included, act on the receive buffer one after
\* the other.  Every step, up to the next point where a call can begin, is
\* either a successful radio_init, which empties the buffer, or at most one
\* whole enqueue (head, count and packets_received advanced together, before
\* the callback is entered) and at most one whole dequeue (tail advanced,
\* count decreased); whoever looks next finds head == (tail + count) mod 32
\* and count == enqueues - dequeues: nothing is half done and nothing is lost.
C31_EnqueueAndDequeueAreWhole ==
    [][IF CallReturned("radio_init") /\ ret'.res = RADIO_OK
       THEN /\ g_radio'.rx_buffer_head = 0
            /\ g_radio'.rx_buffer_tail = 0
            /\ g_radio'.rx_buffer_count = 0
            /\ g_radio'.stats.packets_received = 0
       ELSE LET enq == rx_trace'.enq - rx_trace.enq
                deq == rx_trace'.deq - rx_trace.deq
            IN  /\ enq \in {0, 1}
                /\ deq \in {0, 1}
                /\ g_radio'.rx_buffer_head
                       = (g_radio.rx_buffer_head + enq) % RX_BUFFER_SIZE
                /\ g_radio'.rx_buffer_tail
                       = (g_radio.rx_buffer_tail + deq) % RX_BUFFER_SIZE
                /\ g_radio'.rx_buffer_count
                       = g_radio.rx_buffer_count + enq - deq
                /\ g_radio'.stats.packets_received
                       = g_radio.stats.packets_received + enq
                /\ g_radio'.rx_buffer_head
                       = (g_radio'.rx_buffer_tail + g_radio'.rx_buffer_count)
                             % RX_BUFFER_SIZE
                /\ g_radio'.rx_buffer_count = rx_trace'.enq - rx_trace'.deq
                /\ ret'.op = "rx_callback"
                       => /\ enq = 1
                          /\ deq = 0
                          /\ ret'.out = g_radio'.rx_buffer[g_radio.rx_buffer_head]]_vars

\* A radio_receive_packet call made from inside the receive callback, while
\* the call that took the first arrival is still suspended, has taken a
\* second arrival and returned the first packet: two enqueues and one
\* dequeue, one packet left.
C31_Witness ==
    /\ frames # <<>>
    /\ frames[Len(frames)].called
    /\ ret.op = "radio_receive_packet"
    /\ ret.res = RADIO_OK
    /\ ret.rx = "enqueued"
    /\ ret.out.packet_id = 1
    /\ rx_trace.enq = 2
    /\ rx_trace.deq = 1
    /\ g_radio.rx_buffer_count = 1

\* C32: a receive callback that calls radio_receive_packet again neither
\* blocks the driver nor corrupts the buffer.  When the callback is entered
\* the arrival is already in the buffer: head, count and packets_received
\* were advanced and the packet handed over is the one in the slot before
\* the head.  While a callback runs, the call that invoked it can always go
\* on once the callback returns (there is nothing it waits for).  After
\* every step, nested or outer, 0 <= count <= 32 and
\* head == (tail + count) mod 32, and every packet radio_receive_packet
\* returns is the next one in arrival order, so none is returned twice.
C32_ReentrantCallbackIsSafe ==
    /\ [](frames # <<>>
            => ENABLED (\E d2 \in SecondBufDraws(frames[Len(frames)].timeout_ms) :
                            CallbackReturn(d2, MaxArrivalsBuf, MaxDepthBuf)))
    /\ [][/\ ( ret'.op = "rx_callback" /\ ret' # ret )
             => /\ g_radio'.rx_buffer_head
                       = (g_radio.rx_buffer_head + 1) % RX_BUFFER_SIZE
                /\ g_radio'.rx_buffer_count = g_radio.rx_buffer_count + 1
                /\ g_radio'.stats.packets_received
                       = g_radio.stats.packets_received + 1
                /\ g_radio'.rx_buffer[g_radio.rx_buffer_head] = ret'.out
                /\ frames' # <<>>
          /\ g_radio'.rx_buffer_count \in 0 .. RX_BUFFER_SIZE
          /\ g_radio'.rx_buffer_head
                 = (g_radio'.rx_buffer_tail + g_radio'.rx_buffer_count)
                       % RX_BUFFER_SIZE
          /\ ( CallReturned("radio_receive_packet") /\ ret'.res = RADIO_OK )
             => /\ rx_trace'.deq = rx_trace.deq + 1
                /\ ret'.out.packet_id = rx_trace'.deq]_vars

\* Thirty-two arrivals, each taken inside the callback of the one before,
\* have filled the buffer; the nested and the outer calls have all returned,
\* the outermost with the 32nd packet, and the buffer is empty again.
C32_Witness ==
    /\ frames = <<>>
    /\ ret.op = "radio_receive_packet"
    /\ ret.res = RADIO_OK
    /\ ret.out.packet_id = RX_BUFFER_SIZE
    /\ rx_trace.cb = RX_BUFFER_SIZE
    /\ rx_trace.deq = RX_BUFFER_SIZE
    /\ g_radio.rx_buffer_count = 0
    /\ g_radio.rx_buffer_head = 0
    /\ g_radio.rx_buffer_tail = 0

\* C33: whenever the radio is initialized, rx_buffer_count is between 0 and
\* 32, rx_buffer_head and rx_buffer_tail are between 0 and 31,
\* head == (tail + count) mod 32, and count is the number of packets
\* enqueued minus the number dequeued since the last successful radio_init.
C33_BufferInvariant ==
    g_radio.initialized
        => /\ g_radio.rx_buffer_count \in 0 .. RX_BUFFER_SIZE
           /\ g_radio.rx_buffer_head \in 0 .. RX_BUFFER_SIZE - 1
           /\ g_radio.rx_buffer_tail \in 0 .. RX_BUFFER_SIZE - 1
           /\ g_radio.rx_buffer_head
                  = (g_radio.rx_buffer_tail + g_radio.rx_buffer_count)
                        % RX_BUFFER_SIZE
           /\ g_radio.rx_buffer_count = rx_trace.enq - rx_trace.deq

\* The buffer has been full with wrapped indices and two packets have been
\* taken out again: 33 enqueues, 2 dequeues, 31 packets, head 1 and tail 2.
C33_Witness ==
    /\ g_radio.initialized
    /\ rx_trace.enq = RX_BUFFER_SIZE + 1
    /\ rx_trace.deq = 2
    /\ g_radio.rx_buffer_count = RX_BUFFER_SIZE - 1
    /\ g_radio.rx_buffer_head = 1
    /\ g_radio.rx_buffer_tail = 2

(***************************************************************************)
(* The association: an application that initializes and tears down the     *)
(* radio, switches it through every power state, sends packets, and joins  *)
(* and leaves networks.                                                    *)
(***************************************************************************)
NextAssoc ==
    \/ radio_init(<<ExampleConfig>>, 57, 57)
    \/ \E p \in PowerStates : radio_set_power_state(p)
    \/ \E r \in RandDraws :
           radio_send_packet(<<[ZeroPacket EXCEPT !.payload_size = 32]>>, r)
    \/ \E id \in NetworkIds, k \in PtrArgs, rf, r \in RandDraws :
           radio_join_network(id, k, rf, r)
    \/ radio_leave_network
    \/ radio_deinit

SpecAssoc == Init /\ [][NextAssoc]_vars

\* C34: in every reachable state a radio that is connected to a network is
\* initialized and not powered Off, whatever sequence of radio_init,
\* radio_set_power_state, radio_send_packet, radio_join_network,
\* radio_leave_network and radio_deinit calls led there.
C34_ConnectedImpliesPowered ==
    g_radio.connected_to_network
        => /\ g_radio.initialized
           /\ g_radio.power_state # RADIO_POWER_OFF

\* A connected radio was switched Off: the call succeeded and the radio is
\* Off, initialized and no longer connected.
C34_Witness ==
    /\ ret.op = "radio_set_power_state"
    /\ ret.arg = RADIO_POWER_OFF
    /\ ret.res = RADIO_OK
    /\ ret.from.power_state = RADIO_POWER_SLEEP
    /\ g_radio.network_info.hop_count \in 1 .. 5
    /\ g_radio.stats.packets_sent > 0
    /\ g_radio.power_state = RADIO_POWER_OFF
    /\ g_radio.initialized
    /\ ~g_radio.connected_to_network

\* C35 as stated: whenever the radio is initialized and not connected, the
\* stored association info has hop_count 255 and link_quality 0.
C35_AsStated ==
    ( g_radio.initialized /\ ~g_radio.connected_to_network )
        => /\ g_radio.network_info.hop_count = HOP_NOT_CONNECTED
           /\ g_radio.network_info.link_quality = 0

\* C36: a radio_join_network call that does not return RADIO_OK (it returns
\* RADIO_ERROR_INIT, RADIO_ERROR_INVALID_PARAM, RADIO_ERROR_POWER_FAILURE or
\* the simulated RADIO_ERROR_TIMEOUT) leaves the whole radio state as it was,
\* the connected flag and every field of the association info included: a
\* radio connected to one network is still connected to it, with its info,
\* after a failed join of another.
C36_FailedJoinChangesNothing ==
    [][( CallReturned("radio_join_network") /\ ret'.res # RADIO_OK )
          => /\ ret'.res \in {RADIO_ERROR_INIT, RADIO_ERROR_INVALID_PARAM,
                              RADIO_ERROR_POWER_FAILURE, RADIO_ERROR_TIMEOUT}
             /\ g_radio'.connected_to_network = g_radio.connected_to_network
             /\ g_radio'.network_info = g_radio.network_info
             /\ g_radio' = g_radio]_vars

\* A radio connected to network 1000 has tried to join network 1001, the
\* join has timed out, and the radio is still connected to network 1000.
C36_Witness ==
    /\ ret.op = "radio_join_network"
    /\ ret.arg = 1001
    /\ ret.res = RADIO_ERROR_TIMEOUT
    /\ g_radio.connected_to_network
    /\ g_radio.network_info.network_id = 1000
    /\ g_radio.network_info.hop_count \in 1 .. 5

\* The slot the last enqueue wrote: the one before rx_buffer_head.
NewestSlot(g) == (g.rx_buffer_head + RX_BUFFER_SIZE - 1) % RX_BUFFER_SIZE

\* C37: handing an arrival to the receive callback does not take it out of
\* the receive buffer.  In a step that invokes the callback the packet handed
\* over is the arrival just enqueued; if the step ends inside the callback
\* the packet is in the buffer and counted, and if the call returns in the
\* same step it returns RADIO_OK with the oldest buffered packet and the
\* packet handed over is either that one or still in the buffer.  With or
\* without a callback, every packet radio_receive_packet returns is the next
\* one in arrival order (so each is returned once, in its FIFO position),
\* the occupancy is the enqueues minus the dequeues, and a call that took an
\* arrival and was not re-entered returns a packet.
C37_CallbackDeliveryKeepsPacket ==
    [][/\ ( rx_trace'.cb = rx_trace.cb + 1 )
          => /\ rx_trace'.enq = rx_trace.enq + 1
             /\ rx_trace'.cb_packet.packet_id = rx_trace'.enq
             /\ IF ret'.op = "rx_callback"
                THEN /\ ret'.out = rx_trace'.cb_packet
                     /\ g_radio'.rx_buffer_count = g_radio.rx_buffer_count + 1
                     /\ g_radio'.rx_buffer[NewestSlot(g_radio')]
                            = rx_trace'.cb_packet
                ELSE /\ ret'.op = "radio_receive_packet"
                     /\ ret'.res = RADIO_OK
                     /\ \/ ret'.out = rx_trace'.cb_packet
                        \/ /\ g_radio'.rx_buffer_count > 0
                           /\ g_radio'.rx_buffer[NewestSlot(g_radio')]
                                  = rx_trace'.cb_packet
       /\ ( CallReturned("radio_receive_packet") /\ ret'.res = RADIO_OK )
          => /\ rx_trace'.deq = rx_trace.deq + 1
             /\ ret'.out.packet_id = rx_trace'.deq
       /\ ( /\ CallReturned("radio_receive_packet")
            /\ ret'.rx = "enqueued"
            /\ frames # <<>> /\ Len(frames') < Len(frames)
                   => ~frames[Len(frames)].called )
          => ret'.res = RADIO_OK
       /\ g_radio'.rx_buffer_count = rx_trace'.enq - rx_trace'.deq]_vars

\* The second arrival was handed to the receive callback and was then
\* returned by radio_receive_packet, as the second packet.
C37_Witness ==
    /\ frames = <<>>
    /\ ret.op = "radio_receive_packet"
    /\ ret.res = RADIO_OK
    /\ rx_trace.cb = 2
    /\ rx_trace.cb_packet.packet_id = 2
    /\ ret.out = rx_trace.cb_packet
    /\ rx_trace.deq = 2

(***************************************************************************)
(* Re-initialization: an application that uses the radio (callbacks, a     *)
(* network, packets sent and received) and initializes it again, from the  *)
(* application and from inside its receive callback, where the receive     *)
(* buffer still holds the packet being delivered.                          *)
(***************************************************************************)
ReinitPacket == [ZeroPacket EXCEPT !.payload_size = 32]

NextReinit ==
    \/ InApplication /\ \E c \in ValidConfigs : radio_init(<<c>>, 57, 57)
    \/ /\ InApplication
       /\ \E p \in {RADIO_POWER_SLEEP, RADIO_POWER_RX} :
              radio_set_power_state(p)
    \/ InApplication /\ radio_set_rx_callback("on_packet", "ctx")
    \/ InApplication /\ radio_set_event_callback("on_event", "ctx")
    \/ InApplication /\ radio_join_network(1000, "valid", 57, 57)
    \/ InApplication /\ radio_send_packet(<<ReinitPacket>>, 3)
    \/ InApplication /\ radio_send_packet_async(<<ReinitPacket>>, "valid")
    \/ /\ InApplication
       /\ \E d1 \in RxDraws :
              radio_receive_packet("valid", 0, d1, NoDraws,
                                   MaxArrivalsRx, MaxDepthRx)
    \/ InCallback /\ radio_init(<<LimitConfig>>, 57, 57)
    \/ frames # <<>> /\ CallbackReturn(NoDraws, MaxArrivalsRx, MaxDepthRx)

SpecReinit == Init /\ [][NextReinit]_vars

\* C38: radio_init with a valid configuration on an initialized radio returns
\* RADIO_OK and leaves the state a first radio_init with that configuration
\* builds, whatever the radio held: the new configuration, power state Idle,
\* not connected, hop_count 255 and link quality 0, every statistics counter
\* zero, the receive buffer empty with head and tail 0 and cleared slots,
\* both callbacks and their contexts NULL, and next_tx_id 1; the next
\* accepted radio_send_packet_async is issued the id 1 again.
C38_ReinitIsFreshInit ==
    [][/\ ( /\ CallReturned("radio_init")
            /\ g_radio.initialized
            /\ ret'.arg # <<>>
            /\ ret'.arg[1] \in ValidConfigs )
          => /\ ret'.res = RADIO_OK
             /\ g_radio'.initialized
             /\ g_radio'.config = ret'.arg[1]
             /\ g_radio'.power_state = RADIO_POWER_IDLE
             /\ ~g_radio'.connected_to_network
             /\ g_radio'.network_info.hop_count = HOP_NOT_CONNECTED
             /\ g_radio'.network_info.link_quality = 0
             /\ g_radio'.network_info.network_id = ret'.arg[1].network_id
             /\ g_radio'.stats.packets_sent = 0
             /\ g_radio'.stats.packets_received = 0
             /\ g_radio'.stats.packets_lost = 0
             /\ g_radio'.stats.retries_attempted = 0
             /\ g_radio'.stats.crc_errors = 0
             /\ g_radio'.stats.timeouts = 0
             /\ g_radio'.stats.total_airtime_ms = 0
             /\ g_radio'.rx_buffer_count = 0
             /\ g_radio'.rx_buffer_head = 0
             /\ g_radio'.rx_buffer_tail = 0
             /\ g_radio'.rx_buffer = ZeroState.rx_buffer
             /\ g_radio'.rx_callback = NULL
             /\ g_radio'.rx_user_data = NULL
             /\ g_radio'.event_callback = NULL
             /\ g_radio'.event_user_data = NULL
             /\ g_radio'.next_tx_id = 1
       /\ ( /\ CallReturned("radio_send_packet_async")
            /\ ret'.res = RADIO_OK
            /\ ret.op = "radio_init"
            /\ ret.res = RADIO_OK )
          => ret'.out = 1]_vars

\* The radio was initialized again from inside its receive callback, with
\* the delivered packet still in the buffer: the call succeeded, the buffer
\* is empty and the callback is cleared.
C38_Witness ==
    /\ ret.op = "radio_init"
    /\ ret.res = RADIO_OK
    /\ ret.arg = <<LimitConfig>>
    /\ ret.from.initialized
    /\ ret.from.rx_buffer_count = 1
    /\ ret.from.power_state = RADIO_POWER_RX
    /\ frames # <<>>
    /\ g_radio.rx_buffer_count = 0
    /\ g_radio.rx_callback = NULL
    /\ g_radio.next_tx_id = 1

(***************************************************************************)
(* The DS18B20 driver                                                      *)
(***************************************************************************)
\* get_time_ms(): clock() scaled to milliseconds, the clock of
\* get_current_time_ms.
get_time_ms == clock_ms

\* A value converted to uint8_t, and a uint16_t read as int16_t.
Uint8(x) == x % 256
Int16(x) == IF x >= 32768 THEN x - 65536 ELSE x

\* A sensor call that returns `res` and leaves driver_state alone.
SensorFail(op, arg, res) ==
    /\ ret' = Returned(op, arg, res, NoOutput, "none")
    /\ UNCHANGED <<g_radio, clock_ms, frames, rx_trace, sensor_vars>>

\* A sensor call that returns `res` with output `out` and leaves
\* driver_state as s and the conversion history as t.
SensorDone(op, arg, res, out, s, t) ==
    /\ driver_state' = s
    /\ sensor_trace' = t
    /\ ret' = Returned(op, arg, res, out, "none")
    /\ UNCHANGED <<g_radio, clock_ms, frames, rx_trace>>

\* "Find corresponding simulated device": the first of the device_count
\* entries whose ROM code equals the handle's, or -1.
FindDevice(s, h) ==
    LET found == {i \in 0 .. s.device_count - 1 :
                      s.devices[i].handle.rom_code = h.rom_code}
    IN  IF found = {} THEN -1
        ELSE CHOOSE i \in found : \A j \in found : i <= j

\* The switch on device->resolution in ds18b20_is_conversion_complete.
ConversionTime(resolution) ==
    CASE resolution = DS18B20_RESOLUTION_9BIT -> 94
      [] resolution = DS18B20_RESOLUTION_10BIT -> 188
      [] resolution = DS18B20_RESOLUTION_11BIT -> 375
      [] resolution = DS18B20_RESOLUTION_12BIT -> 750
      [] OTHER -> 750

\* A variant of ds18b20_init that initializes the driver again when it is
\* already initialized.
ds18b20_init_again(onewire_pin) ==
    SensorDone("ds18b20_init", onewire_pin, DS18B20_OK, NoOutput,
               [ZeroDriverState EXCEPT !.onewire_pin = onewire_pin,
                                       !.initialized = TRUE],
               ZeroSensorTrace)

ds18b20_init(onewire_pin) ==
    IF driver_state.initialized
    THEN SensorFail("ds18b20_init", onewire_pin, DS18B20_OK)
    ELSE SensorDone("ds18b20_init", onewire_pin, DS18B20_OK, NoOutput,
                    [ZeroDriverState EXCEPT !.onewire_pin = onewire_pin,
                                            !.initialized = TRUE],
                    ZeroSensorTrace)

\* The handle ds18b20_scan_devices writes for a device with ROM code rom:
\* "devices[i].tl_register = -55" is stored in a uint8_t.
ScannedHandle(rom) ==
    [rom_code |-> rom, resolution |-> DS18B20_RESOLUTION_12BIT,
     power_mode |-> DS18B20_POWER_EXTERNAL, th_register |-> 125,
     tl_register |-> Uint8(-55), initialized |-> TRUE]

\* rn is the rand() result of the device count, roms[i] the ROM code drawn
\* for the i-th device and rb the rand() result of the base temperatures.
\* The entries are rebuilt except for conversion_start_time.
ds18b20_scan_devices(devices, max_devices, found_count, rn, roms, rb) ==
    IF ~driver_state.initialized
    THEN SensorFail("ds18b20_scan_devices",
                    <<devices, max_devices, found_count>>, DS18B20_ERROR_INIT)
    ELSE IF devices = NULL \/ found_count = NULL
    THEN SensorFail("ds18b20_scan_devices",
                    <<devices, max_devices, found_count>>,
                    DS18B20_ERROR_INVALID_PARAM)
    ELSE LET drawn == 1 + (rn % 3)
             capped == IF drawn > max_devices THEN max_devices ELSE drawn
             num_devices == IF capped > MAX_SIMULATED_DEVICES
                            THEN MAX_SIMULATED_DEVICES ELSE capped
         IN  SensorDone("ds18b20_scan_devices",
                        <<devices, max_devices, found_count>>, DS18B20_OK,
                        [devices |-> [i \in 0 .. num_devices - 1 |->
                                          ScannedHandle(roms[i])],
                         found_count |-> num_devices],
                        [driver_state EXCEPT
                            !.devices =
                                [i \in 0 .. MAX_SIMULATED_DEVICES - 1 |->
                                    IF i < num_devices
                                    THEN [@[i] EXCEPT
                                             !.handle = ScannedHandle(roms[i]),
                                             !.conversion_active = FALSE,
                                             !.base_temperature =
                                                 (20 + (rb % 20)) * 1000,
                                             !.temperature_drift = 0]
                                    ELSE @[i]],
                            !.device_count = num_devices],
                        ZeroSensorTrace)

\* device is a pointer to the application's handle (<<>> or <<h>>); the
\* updated handle is the output.  The call succeeds whether or not the
\* driver knows the ROM code.
ds18b20_configure(device, resolution, th_alarm, tl_alarm) ==
    IF ~driver_state.initialized
    THEN SensorFail("ds18b20_configure",
                    <<device, resolution, th_alarm, tl_alarm>>,
                    DS18B20_ERROR_INIT)
    ELSE IF device = <<>> \/ ~device[1].initialized
    THEN SensorFail("ds18b20_configure",
                    <<device, resolution, th_alarm, tl_alarm>>,
                    DS18B20_ERROR_INVALID_PARAM)
    ELSE IF th_alarm < -55 \/ th_alarm > 125 \/ tl_alarm < -55 \/ tl_alarm > 125
    THEN SensorFail("ds18b20_configure",
                    <<device, resolution, th_alarm, tl_alarm>>,
                    DS18B20_ERROR_INVALID_PARAM)
    ELSE IF tl_alarm >= th_alarm
    THEN SensorFail("ds18b20_configure",
                    <<device, resolution, th_alarm, tl_alarm>>,
                    DS18B20_ERROR_INVALID_PARAM)
    ELSE LET h == [device[1] EXCEPT !.resolution = resolution,
                                    !.th_register = Uint8(th_alarm),
                                    !.tl_register = Uint8(tl_alarm)]
             i == FindDevice(driver_state, h)
         IN  SensorDone("ds18b20_configure",
                        <<device, resolution, th_alarm, tl_alarm>>,
                        DS18B20_OK, h,
                        IF i = -1 THEN driver_state
                        ELSE [driver_state EXCEPT !.devices[i].handle = h],
                        sensor_trace)

\* A variant of ds18b20_start_conversion that does not restart a conversion
\* that is still active.
ds18b20_start_conversion_once(device) ==
    IF ~driver_state.initialized
    THEN SensorFail("ds18b20_start_conversion", device, DS18B20_ERROR_INIT)
    ELSE IF device = <<>> \/ ~device[1].initialized
    THEN SensorFail("ds18b20_start_conversion", device,
                    DS18B20_ERROR_INVALID_PARAM)
    ELSE LET i == FindDevice(driver_state, device[1])
         IN  IF i = -1
             THEN SensorFail("ds18b20_start_conversion", device,
                             DS18B20_ERROR_NOT_FOUND)
             ELSE SensorDone("ds18b20_start_conversion", device, DS18B20_OK,
                             NoOutput,
                             IF driver_state.devices[i].conversion_active
                             THEN driver_state
                             ELSE [driver_state EXCEPT
                                      !.devices[i].conversion_active = TRUE,
                                      !.devices[i].conversion_start_time =
                                          get_time_ms],
                             [sensor_trace EXCEPT
                                 ![device[1].rom_code] =
                                     [started |-> TRUE, at |-> get_time_ms,
                                      reported |-> FALSE]])

ds18b20_start_conversion(device) ==
    IF ~driver_state.initialized
    THEN SensorFail("ds18b20_start_conversion", device, DS18B20_ERROR_INIT)
    ELSE IF device = <<>> \/ ~device[1].initialized
    THEN SensorFail("ds18b20_start_conversion", device,
                    DS18B20_ERROR_INVALID_PARAM)
    ELSE LET i == FindDevice(driver_state, device[1])
         IN  IF i = -1
             THEN SensorFail("ds18b20_start_conversion", device,
                             DS18B20_ERROR_NOT_FOUND)
             ELSE SensorDone("ds18b20_start_conversion", device, DS18B20_OK,
                             NoOutput,
                             [driver_state EXCEPT
                                 !.devices[i].conversion_active = TRUE,
                                 !.devices[i].conversion_start_time =
                                     get_time_ms],
                             [sensor_trace EXCEPT
                                 ![device[1].rom_code] =
                                     [started |-> TRUE, at |-> get_time_ms,
                                      reported |-> FALSE]])

\* The state and the answer of one poll of device i with handle h:
\* "elapsed >= conversion_time" clears conversion_active.  The times are
\* uint32_t; the model keeps the clock below 2^31, where the difference of
\* two readings does not wrap.
Polled(s, i, h) ==
    IF ~s.devices[i].conversion_active
    THEN [s |-> s, is_complete |-> TRUE]
    ELSE LET elapsed == get_time_ms - s.devices[i].conversion_start_time
             is_complete == elapsed >= ConversionTime(h.resolution)
         IN  [s |-> IF is_complete
                    THEN [s EXCEPT !.devices[i].conversion_active = FALSE]
                    ELSE s,
              is_complete |-> is_complete]

\* The conversion history after a poll of ROM code rom answered is_complete.
Reported(t, rom, is_complete) ==
    IF is_complete THEN [t EXCEPT ![rom].reported = TRUE] ELSE t

ds18b20_is_conversion_complete(device, is_complete) ==
    IF ~driver_state.initialized
    THEN SensorFail("ds18b20_is_conversion_complete", <<device, is_complete>>,
                    DS18B20_ERROR_INIT)
    ELSE IF device = <<>> \/ ~device[1].initialized \/ is_complete = NULL
    THEN SensorFail("ds18b20_is_conversion_complete", <<device, is_complete>>,
                    DS18B20_ERROR_INVALID_PARAM)
    ELSE LET i == FindDevice(driver_state, device[1])
         IN  IF i = -1
             THEN SensorFail("ds18b20_is_conversion_complete",
                             <<device, is_complete>>, DS18B20_ERROR_NOT_FOUND)
             ELSE LET p == Polled(driver_state, i, device[1])
                  IN  SensorDone("ds18b20_is_conversion_complete",
                                 <<device, is_complete>>, DS18B20_OK,
                                 p.is_complete, p.s,
                                 Reported(sensor_trace, device[1].rom_code,
                                          p.is_complete))

\* temperature_to_raw on a temperature in thousandths of a degree: the
\* int16_t cast of temp_c * 16 truncates towards zero, the resolution masks
\* the low bits of the two's complement value, the result is a uint16_t.
temperature_to_raw(temp_c, resolution) ==
    LET scaled == temp_c * 16
        temp_raw == IF scaled >= 0 THEN scaled \div 1000
                    ELSE -((-scaled) \div 1000)
        masked == CASE resolution = DS18B20_RESOLUTION_9BIT
                           -> temp_raw - (temp_raw % 8)
                    [] resolution = DS18B20_RESOLUTION_10BIT
                           -> temp_raw - (temp_raw % 4)
                    [] resolution = DS18B20_RESOLUTION_11BIT
                           -> temp_raw - (temp_raw % 2)
                    [] OTHER -> temp_raw
    IN  masked % UINT16_MOD

\* ds18b20_raw_to_celsius, in 1/32 of a degree: the raw value divided by 8,
\* 16, 32 or 16.
ds18b20_raw_to_celsius(raw_value, resolution) ==
    CASE resolution = DS18B20_RESOLUTION_9BIT -> Int16(raw_value) * 4
      [] resolution = DS18B20_RESOLUTION_10BIT -> Int16(raw_value) * 2
      [] resolution = DS18B20_RESOLUTION_11BIT -> Int16(raw_value)
      [] OTHER -> Int16(raw_value) * 2

\* ds18b20_celsius_to_fahrenheit: celsius * 9 / 5 + 32, from 1/32 of a
\* degree Celsius to 1/160 of a degree Fahrenheit.
ds18b20_celsius_to_fahrenheit(celsius) == celsius * 9 + 32 * 160

\* simulate_temperature: the drift moves by `step` and is clamped to +-2
\* degrees; the reading is base + drift + noise (thousandths of a degree).
Drifted(dev, step) ==
    LET d == dev.temperature_drift + step
    IN  [dev EXCEPT !.temperature_drift =
            IF d > 2000 THEN 2000 ELSE IF d < -2000 THEN -2000 ELSE d]

simulate_temperature(dev, noise) ==
    dev.base_temperature + dev.temperature_drift + noise

\* The ds18b20_temperature_t read from device i of s with handle h.
Reading(s, i, h, noise, step) ==
    LET dev == Drifted(s.devices[i], step)
        raw_value == temperature_to_raw(simulate_temperature(dev, noise),
                                        h.resolution)
        celsius == ds18b20_raw_to_celsius(raw_value, h.resolution)
    IN  [s |-> [s EXCEPT !.devices[i] = dev],
         temperature |-> [temperature_c |-> celsius,
                          temperature_f |->
                              ds18b20_celsius_to_fahrenheit(celsius),
                          raw_value |-> raw_value,
                          valid |-> TRUE]]

\* noise and step are the rand() results of simulate_temperature, scaled to
\* thousandths of a degree (-50 .. 50 and -5 .. 5).
ds18b20_read_temperature(device, temperature, noise, step) ==
    IF ~driver_state.initialized
    THEN SensorFail("ds18b20_read_temperature", <<device, temperature>>,
                    DS18B20_ERROR_INIT)
    ELSE IF device = <<>> \/ ~device[1].initialized \/ temperature = NULL
    THEN SensorFail("ds18b20_read_temperature", <<device, temperature>>,
                    DS18B20_ERROR_INVALID_PARAM)
    ELSE LET i == FindDevice(driver_state, device[1])
         IN  IF i = -1
             THEN SensorFail("ds18b20_read_temperature",
                             <<device, temperature>>, DS18B20_ERROR_NOT_FOUND)
             ELSE LET r == Reading(driver_state, i, device[1], noise, step)
                  IN  SensorDone("ds18b20_read_temperature",
                                 <<device, temperature>>, DS18B20_OK,
                                 r.temperature, r.s, sensor_trace)

\* The call starts a conversion and polls it in a busy loop.  waited is the
\* time the loop took; the loop ends either with a poll that found the
\* conversion time elapsed (then the temperature is read), or, if no poll
\* did before get_time_ms() reached the 1000 ms limit, with a timeout that
\* leaves the conversion active.
ds18b20_read_temperature_blocking(device, temperature, waited, noise, step) ==
    IF ~driver_state.initialized
    THEN SensorFail("ds18b20_read_temperature_blocking",
                    <<device, temperature>>, DS18B20_ERROR_INIT)
    ELSE IF device = <<>> \/ ~device[1].initialized \/ temperature = NULL
    THEN SensorFail("ds18b20_read_temperature_blocking",
                    <<device, temperature>>, DS18B20_ERROR_INVALID_PARAM)
    ELSE LET i == FindDevice(driver_state, device[1])
             rom == device[1].rom_code
             started == [driver_state EXCEPT
                            !.devices[i].conversion_active = TRUE,
                            !.devices[i].conversion_start_time = get_time_ms]
         IN  IF i = -1
             THEN SensorFail("ds18b20_read_temperature_blocking",
                             <<device, temperature>>, DS18B20_ERROR_NOT_FOUND)
             ELSE /\ clock_ms' = clock_ms + waited
                  /\ UNCHANGED <<g_radio, frames, rx_trace>>
                  /\ \/ /\ waited >= ConversionTime(device[1].resolution)
                        /\ LET r == Reading(
                                      [started EXCEPT
                                          !.devices[i].conversion_active = FALSE],
                                      i, device[1], noise, step)
                           IN  /\ driver_state' = r.s
                               /\ sensor_trace' =
                                      [sensor_trace EXCEPT ![rom] =
                                          [started |-> TRUE, at |-> get_time_ms,
                                           reported |-> TRUE]]
                               /\ ret' = [Returned(
                                             "ds18b20_read_temperature_blocking",
                                             <<device, temperature>>, DS18B20_OK,
                                             r.temperature, "none")
                                          EXCEPT !.at = clock_ms + waited]
                     \/ /\ waited >= 1000
                        /\ driver_state' = started
                        /\ sensor_trace' =
                               [sensor_trace EXCEPT ![rom] =
                                   [started |-> TRUE, at |-> get_time_ms,
                                    reported |-> FALSE]]
                        /\ ret' = [Returned(
                                      "ds18b20_read_temperature_blocking",
                                      <<device, temperature>>,
                                      DS18B20_ERROR_TIMEOUT, NoOutput, "none")
                                   EXCEPT !.at = clock_ms + waited]

ds18b20_get_power_mode(device, power_mode) ==
    IF ~driver_state.initialized
    THEN SensorFail("ds18b20_get_power_mode", <<device, power_mode>>,
                    DS18B20_ERROR_INIT)
    ELSE IF device = <<>> \/ ~device[1].initialized \/ power_mode = NULL
    THEN SensorFail("ds18b20_get_power_mode", <<device, power_mode>>,
                    DS18B20_ERROR_INVALID_PARAM)
    ELSE SensorDone("ds18b20_get_power_mode", <<device, power_mode>>,
                    DS18B20_OK, device[1].power_mode, driver_state,
                    sensor_trace)

ds18b20_deinit ==
    IF ~driver_state.initialized
    THEN SensorFail("ds18b20_deinit", NoOutput, DS18B20_ERROR_INIT)
    ELSE SensorDone("ds18b20_deinit", NoOutput, DS18B20_OK, NoOutput,
                    ZeroDriverState, ZeroSensorTrace)

(***************************************************************************)
(* The conversion timer: an application that scans one sensor, configures  *)
(* its resolution, starts conversions and polls them, at the instants at   *)
(* which a conversion started in the first milliseconds is one millisecond *)
(* short of a conversion time, or has just reached it.                     *)
(***************************************************************************)
\* The application starts its first conversions up to MaxStartMs after the
\* clock's origin and is followed up to MaxConvClockMs.
MaxStartMs == 1
MaxConvClockMs == 751

Resolutions ==
    {DS18B20_RESOLUTION_9BIT, DS18B20_RESOLUTION_10BIT,
     DS18B20_RESOLUTION_11BIT, DS18B20_RESOLUTION_12BIT}

ConvInstants ==
    {t \in 0 .. MaxConvClockMs :
        \E s \in 0 .. MaxStartMs, r \in Resolutions :
            t \in {s, s + ConversionTime(r) - 1, s + ConversionTime(r)}}

\* Time passes until the next of these instants.
ConvTick ==
    /\ \E t \in ConvInstants :
           /\ t > clock_ms
           /\ \A u \in ConvInstants : u > clock_ms => t <= u
           /\ clock_ms' = t
    /\ UNCHANGED <<g_radio, ret, frames, rx_trace, sensor_vars>>

\* The handles of the application: the scanned sensor (ROM code 11) at each
\* resolution and at a value outside the enum, and a sensor the driver does
\* not know.
ConvHandles ==
    {[ScannedHandle(11) EXCEPT !.resolution = r] : r \in Resolutions \cup {0}}
        \cup {ScannedHandle(UnknownRom)}

NextConv ==
    \/ ds18b20_init(4)
    \/ ds18b20_scan_devices("valid", 1, "valid", 0, [i \in 0 .. 2 |-> 11], 57)
    \/ ds18b20_configure(<<ScannedHandle(11)>>, DS18B20_RESOLUTION_9BIT,
                         125, -55)
    \/ \E rom \in {11, UnknownRom} :
           ds18b20_start_conversion(<<ScannedHandle(rom)>>)
    \/ \E h \in ConvHandles : ds18b20_is_conversion_complete(<<h>>, "valid")
    \/ ConvTick

SpecConv == Init /\ [][NextConv]_vars

\* C39: a ds18b20_is_conversion_complete call that finds the device
\* (returns DS18B20_OK) with a handle of 9, 10, 11 or 12 bit resolution
\* reports true if no conversion was started on the device since it was
\* scanned, or if a poll has already reported true since the last
\* ds18b20_start_conversion, or if 94, 188, 375 or 750 ms respectively have
\* passed since that start; otherwise it reports false.
C39_ConversionTimer ==
    [][( /\ CallReturned("ds18b20_is_conversion_complete")
         /\ ret'.res = DS18B20_OK
         /\ ret'.arg[1][1].resolution \in Resolutions )
          => LET h == ret'.arg[1][1]
                 c == sensor_trace[h.rom_code]
                 needed == CASE h.resolution = DS18B20_RESOLUTION_9BIT -> 94
                             [] h.resolution = DS18B20_RESOLUTION_10BIT -> 188
                             [] h.resolution = DS18B20_RESOLUTION_11BIT -> 375
                             [] h.resolution = DS18B20_RESOLUTION_12BIT -> 750
             IN  ret'.out = ( \/ ~c.started
                              \/ c.reported
                              \/ clock_ms - c.at >= needed )]_vars

\* A conversion was restarted at 1 ms and polled with the 12 bit handle
\* exactly 750 ms later: the poll has reported true.
C39_Witness ==
    /\ ret.op = "ds18b20_is_conversion_complete"
    /\ ret.res = DS18B20_OK
    /\ ret.out = TRUE
    /\ ret.arg[1][1].resolution = DS18B20_RESOLUTION_12BIT
    /\ sensor_trace[11].started
    /\ sensor_trace[11].at = 1
    /\ sensor_trace[11].reported
    /\ ret.at = 751
    /\ clock_ms = 751

(***************************************************************************)
(* The sensor's lifecycle: an application that initializes and tears down  *)
(* the driver, scans the bus, and configures, converts and reads sensors,  *)
(* with handles the driver knows and handles it does not.                  *)
(***************************************************************************)
SensorTickMs == 375
MaxSensorClockMs == 750

SensorTick ==
    /\ clock_ms + SensorTickMs <= MaxSensorClockMs
    /\ clock_ms' = clock_ms + SensorTickMs
    /\ UNCHANGED <<g_radio, ret, frames, rx_trace, sensor_vars>>

\* Device pointers: NULL, the two sensors of the bus, a sensor the driver
\* does not know, and a handle that was never filled in by a scan.
HandleArgs ==
    {<<>>, <<ScannedHandle(11)>>, <<ScannedHandle(12)>>,
     <<ScannedHandle(UnknownRom)>>, <<[ZeroHandle EXCEPT !.rom_code = 11]>>}

\* The ROM codes the bus answers a scan with.
BusRoms == [i \in 0 .. 2 |-> IF i = 1 THEN 12 ELSE 11]

SensorUninitialized == ~driver_state.initialized

\* While the driver is initialized the application uses well-formed
\* arguments: the handle of the sensor it works with and a valid output
\* pointer.  While it is not, it tries every argument.
WellFormed(h, o, rom) ==
    SensorUninitialized \/ ( h = <<ScannedHandle(rom)>> /\ o = "valid" )

NextSensor ==
    \/ \E pin \in {4, 5} : ds18b20_init(pin)
    \/ \E d, f \in PtrArgs, rn \in {0, 1} :
           /\ SensorUninitialized \/ ( d = "valid" /\ f = "valid" )
           /\ ds18b20_scan_devices(d, 2, f, rn, BusRoms, 57)
    \/ \E h \in HandleArgs, th \in {125, 126} :
           /\ WellFormed(h, "valid", 12)
           /\ ds18b20_configure(h, DS18B20_RESOLUTION_9BIT, th, -55)
    \/ \E h \in HandleArgs :
           /\ SensorUninitialized \/ h \in {<<ScannedHandle(11)>>,
                                            <<ScannedHandle(UnknownRom)>>}
           /\ ds18b20_start_conversion(h)
    \/ \E h \in HandleArgs, o \in PtrArgs :
           /\ WellFormed(h, o, 11)
           /\ ds18b20_is_conversion_complete(h, o)
    \/ \E h \in HandleArgs, o \in PtrArgs :
           /\ WellFormed(h, o, 12)
           /\ ds18b20_read_temperature(h, o, 50, 0)
    \/ \E h \in HandleArgs, o \in PtrArgs :
           /\ WellFormed(h, o, 12)
           /\ clock_ms + 750 <= MaxSensorClockMs
           /\ ds18b20_read_temperature_blocking(h, o, 750, -50, 0)
    \/ \E h \in HandleArgs, o \in PtrArgs :
           /\ WellFormed(h, o, 11)
           /\ ds18b20_get_power_mode(h, o)
    \/ ds18b20_deinit
    \/ SensorTick

SpecSensor == Init /\ [][NextSensor]_vars

\* The sensor functions that work on driver_state, ds18b20_init apart.
SensorOps ==
    {"ds18b20_scan_devices", "ds18b20_configure", "ds18b20_start_conversion",
     "ds18b20_is_conversion_complete", "ds18b20_read_temperature",
     "ds18b20_read_temperature_blocking", "ds18b20_get_power_mode",
     "ds18b20_deinit"}

\* C40: while the sensor driver is not initialized (before ds18b20_init or
\* after ds18b20_deinit) each of these eight functions returns
\* DS18B20_ERROR_INIT, whatever its arguments, and changes nothing; and
\* ds18b20_init on an initialized driver returns DS18B20_OK and leaves
\* driver_state as it is: the pin, the device table and the conversions in
\* progress.
C40_SensorNeedsInit ==
    [][/\ ( /\ ret'.op \in SensorOps
            /\ ret' # ret
            /\ ~driver_state.initialized )
          => /\ ret'.res = DS18B20_ERROR_INIT
             /\ ret'.out = NoOutput
             /\ driver_state' = driver_state
             /\ clock_ms' = clock_ms
       /\ ( ret'.op = "ds18b20_init" /\ ret' # ret /\ driver_state.initialized )
          => /\ ret'.res = DS18B20_OK
             /\ driver_state' = driver_state
             /\ sensor_trace' = sensor_trace
       /\ ( ret'.op = "ds18b20_deinit" /\ ret' # ret /\ driver_state.initialized )
          => /\ ret'.res = DS18B20_OK
             /\ ~driver_state'.initialized]_vars

\* ds18b20_init(5) was called on a driver initialized on pin 4 that knows
\* two sensors and has a conversion in progress on the first: the call
\* returned DS18B20_OK and the pin, the table and the conversion are as
\* they were.
C40_Witness ==
    /\ ret.op = "ds18b20_init"
    /\ ret.arg = 5
    /\ ret.res = DS18B20_OK
    /\ driver_state.initialized
    /\ driver_state.onewire_pin = 4
    /\ driver_state.device_count = 2
    /\ driver_state.devices[0].conversion_active
    /\ driver_state.devices[0].conversion_start_time = SensorTickMs
    /\ driver_state.devices[1].handle.resolution = DS18B20_RESOLUTION_9BIT
    /\ sensor_trace[11].started

=============================================================================
